---- MODULE Spec2Model ----
(***************************************************************************)
(* Model of the music player's playback core: the AudioEngine (master      *)
(* clock, routing, decoded tracks), the VideoManager (two positions,       *)
(* offsets, deferred-play timers, per-frame sync) and the part of          *)
(* MusicPlayerApp that drives them (togglePlayPause, seekTo, routing,      *)
(* cursor loop).                                                           *)
(*                                                                         *)
(* Time is counted in ticks of 10 ms: the seek restart delay of 10 ms is   *)
(* 1 tick, the native drift threshold of 0.05 s is 5 ticks, the YouTube    *)
(* threshold of 1.0 s is 100 ticks, and the end-of-media margin of 0.01 s  *)
(* is 1 tick.  `now` is AudioContext.currentTime and the timer clock.      *)
(***************************************************************************)
EXTENDS Integers, Sequences, FiniteSets, TLC

\* ---------------------------------------------------------------- bounds
MaxNow == 3              \* the clock runs from 0 to MaxNow ticks
MaxInflight == 1         \* togglePlayPause calls suspended at an await
MaxOldLoads == 1         \* loads in flight whose track entry was replaced
Sub == 16                   \* fixed-point steps per pixel and per tick
MaxClock == 206          \* the player's clock runs from 0 to MaxClock ticks
MaxCallTime == 2         \* play() is called at a clock of at most MaxCallTime
MaxLen == 5              \* characters of a config text
MaxTimers == 1           \* pending seek-restart timers
MaxWidth == 12           \* columns of a waveform canvas
MaxLength == 16          \* samples of a rendered buffer
MaxHeight == 12          \* rows of a spectrogram canvas
ClipLength == 4007       \* samples of the clip rendered at the strip's width
MaxVideoLoads == 3       \* loadVideo calls made on the VideoManager

\* ------------------------------------------------------- program constants
nativeSyncThresholdSeconds == 5      \* 0.05 s
youtubeSyncThresholdSeconds == 100   \* 1.0 s
SeekRestartDelay == 1                \* setTimeout(..., 10)
PlayTimeout == 200                   \* 2000 ms
PollInterval == 5                    \* 50 ms
EndMargin == 1                       \* duration - 0.01
MagnitudeBins == 512                 \* winSize / 2
WaveformWidth == 4000                \* renderWaveformPng(buf, 4000, 50)
SpectrogramHeight == 200             \* renderSpectrogramPng(buf, 4000, 200)
MantissaBits == 52                   \* fraction bits of a JavaScript number

\* ------------------------------------------------------------- the config
None == -1                           \* null / undefined
TrackIds == {"a", "b"}
Positions == {"top", "bottom"}
TrackDuration == [id \in TrackIds |-> IF id = "a" THEN 4 ELSE 5]
VideoIds == {"mp4", "yt"}            \* one direct element, one embedded player
NoVideo == "none"
VideoKind == [v \in VideoIds |-> IF v = "mp4" THEN "mp4" ELSE "youtube"]
VideoOffset == [v \in VideoIds |-> IF v = "mp4" THEN 0 - 2 ELSE 1]
VideoLength == 200                   \* video.duration of every source, ticks
SeekTimes == {0 - 1, 2}           \* arguments of seekTo

\* An AudioSource as applyRoutingFromSelectors builds it; NullSource is null.
NullSource == [type |-> "none", id |-> "", position |-> ""]
AudioSource(id) == [type |-> "audio", id |-> id, position |-> ""]
VideoEndpoint(pos) == [type |-> "video", id |-> "", position |-> pos]
Endpoints == {NullSource} \cup {AudioSource(id) : id \in TrackIds}

Max(x, y) == IF x >= y THEN x ELSE y
Min(x, y) == IF x <= y THEN x ELSE y
Abs(x) == IF x < 0 THEN 0 - x ELSE x

VARIABLES
    now,            \* AudioContext.currentTime and the timer clock, ticks
    ctxSuspended,   \* audioContext.state === 'suspended'
    audioEngine,    \* MusicPlayerApp.audioEngine: the AudioEngine's fields
    loads,          \* loadAudioTrack calls in flight, per track id
    restartTimers,  \* deadlines of the setTimeout(playAll, 10) of seekAll
    videoManager,   \* MusicPlayerApp.videoManager: the VideoManager's fields
    isPlaying,      \* MusicPlayerApp.isPlaying
    playbackEnded,  \* MusicPlayerApp.playbackEnded
    cursorRaf,      \* MusicPlayerApp.cursorRaf # null: a frame tick is scheduled
    playsResuming,  \* togglePlayPause calls waiting in `await resume()`
    playsAwaiting,  \* togglePlayPause calls waiting in `await videoManager.playAll`
    lastOp,         \* the operation performed last and its arguments
    visuals,        \* the strip of a track's .track-visuals: widths, translation
    ytPlay,         \* a YouTubePlayer and the play() call it is serving
    config,         \* ConfigLoader: the text fetched and the text handed to JSON.parse
    canvas,         \* the canvas a renderer is drawing: columns or rows done so far
    videoLoads,     \* VideoManager: the loadVideo calls in flight and the players made
    pendingMediaLoads   \* MusicPlayerApp.pendingMediaLoads

vars == <<now, ctxSuspended, audioEngine, loads, restartTimers, videoManager,
          isPlaying, playbackEnded, cursorRaf, playsResuming, playsAwaiting,
          lastOp, visuals, ytPlay, config, canvas, videoLoads,
          pendingMediaLoads>>

\* the components that playback does not touch
\* the gate of tracked media loads
mediaLoads == <<videoLoads, pendingMediaLoads>>

standalone == <<ytPlay, config, canvas, mediaLoads>>

\* ------------------------------------------------------------ AudioEngine
\* A LoadedAudioTrack: buffer 0 is null, otherwise the decoded duration;
\* sourceNode None is null, otherwise the offset it was started at.
\* isLoaded is buffer # 0 and isPlaying is sourceNode # None: the code sets
\* each pair together.
\* gain is gainNode.gain.value in steps of 1/Sub: a new GainNode has 1.
\* connected is the set of channel gains the entry's gainNode feeds.
Channels == {"left", "right"}
NoTrack == [present |-> FALSE, buffer |-> 0, sourceNode |-> None, gain |-> 0,
            connected |-> {}]
FreshTrack == [present |-> TRUE, buffer |-> 0, sourceNode |-> None, gain |-> Sub,
               connected |-> {}]

InitEngine ==
    [audioTracks |-> [id \in TrackIds |-> NoTrack],
     currentRouting |-> [left |-> NullSource, right |-> NullSource],
     masterClock |-> [currentTime |-> 0, isPlaying |-> FALSE],
     playStartContextTime |-> None,
     playStartOffset |-> 0,
     started |-> {},      \* tracks for which playAudioTrack created a source
     orphaned |-> {},     \* ids with a running source that is in no map entry
     residual |-> {},     \* <<id, channel>>: a gainNode in no map entry feeds it
     merger |-> [ch \in Channels |-> 1]]  \* connections of each channel gain
                                          \* to its input of the merger

\* a clock that reports the stored value instead of computing it
getMasterClockStored(e, t) == e.masterClock

getMasterClock(e, t) ==
    IF e.masterClock.isPlaying /\ e.playStartContextTime # None
    THEN [currentTime |-> e.playStartOffset + Max(0, t - e.playStartContextTime),
          isPlaying |-> TRUE]
    ELSE e.masterClock

playAudioTrack(e, id) ==
    IF id \notin TrackIds THEN e
    ELSE IF ~e.audioTracks[id].present \/ e.audioTracks[id].buffer = 0 THEN e
    ELSE [e EXCEPT !.audioTracks[id].sourceNode = e.masterClock.currentTime,
                   !.started = @ \cup {id}]

stopAudioTrack(e, id) ==
    IF id \in TrackIds /\ e.audioTracks[id].present
                       /\ e.audioTracks[id].sourceNode # None
    THEN [e EXCEPT !.audioTracks[id].sourceNode = None]
    ELSE e

\* a setTrackVolume that stores the value as given
setTrackVolumeUnclamped(e, id, volume) ==
    IF id \in TrackIds /\ e.audioTracks[id].present
    THEN [e EXCEPT !.audioTracks[id].gain = volume]
    ELSE e

setTrackVolume(e, id, volume) ==
    IF id \in TrackIds /\ e.audioTracks[id].present
    THEN [e EXCEPT !.audioTracks[id].gain = Max(0, Min(Sub, volume))]
    ELSE e

RECURSIVE stopTracks(_, _)
stopTracks(e, ids) ==
    IF ids = {} THEN e
    ELSE LET id == CHOOSE x \in ids : TRUE
         IN stopTracks(stopAudioTrack(e, id), ids \ {id})

\* setRouting's disconnects: both channel gains, and the gainNode of every
\* entry of audioTracks
disconnectAll(e) ==
    [e EXCEPT !.merger = [ch \in Channels |-> 0],
              !.audioTracks = [id \in TrackIds |->
                                  [e.audioTracks[id] EXCEPT !.connected = {}]]]

\* AudioNode.connect to a destination it is already connected to is ignored
connectToMerger(e) == [e EXCEPT !.merger = [ch \in Channels |-> 1]]

connectSourceToChannel(e, source, channel) ==
    IF source.type = "audio" /\ source.id \in TrackIds
                            /\ e.audioTracks[source.id].present
    THEN [e EXCEPT !.audioTracks[source.id].connected = @ \cup {channel}]
    ELSE e

\* setRouting from its disconnects to `this.currentRouting = routing`
rewire(e, routing) ==
    LET e1 == connectToMerger(disconnectAll(e))
        e2 == IF routing.left # NullSource
              THEN connectSourceToChannel(e1, routing.left, "left") ELSE e1
        e3 == IF routing.right # NullSource
              THEN connectSourceToChannel(e2, routing.right, "right") ELSE e2
    IN [e3 EXCEPT !.currentRouting = routing]

selectedIds(routing) ==
    {s.id : s \in {x \in {routing.left, routing.right} : x.type = "audio"}}

\* a setRouting that leaves the unrouted tracks running
setRoutingNoStop(e, routing, t) ==
    LET wasPlaying == e.masterClock.isPlaying
        currentPos == getMasterClock(e, t).currentTime
        e1 == rewire(e, routing)
        e3 == [e1 EXCEPT !.masterClock.currentTime = currentPos,
                         !.playStartContextTime = t,
                         !.playStartOffset = currentPos]
        e4 == IF routing.left.type = "audio"
              THEN playAudioTrack(e3, routing.left.id) ELSE e3
        e5 == IF routing.right.type = "audio" /\ routing.right.id # routing.left.id
              THEN playAudioTrack(e4, routing.right.id) ELSE e4
    IN IF wasPlaying THEN [e5 EXCEPT !.masterClock.isPlaying = TRUE] ELSE e1

setRouting(e, routing, t) ==
    LET wasPlaying == e.masterClock.isPlaying
        currentPos == getMasterClock(e, t).currentTime
        e1 == rewire(e, routing)
        e2 == stopTracks(e1, {id \in TrackIds : e1.audioTracks[id].present}
                                 \ selectedIds(routing))
        e3 == [e2 EXCEPT !.masterClock.currentTime = currentPos,
                         !.playStartContextTime = t,
                         !.playStartOffset = currentPos]
        e4 == IF routing.left.type = "audio"
              THEN playAudioTrack(e3, routing.left.id) ELSE e3
        e5 == IF routing.right.type = "audio" /\ routing.right.id # routing.left.id
              THEN playAudioTrack(e4, routing.right.id) ELSE e4
    IN IF wasPlaying THEN [e5 EXCEPT !.masterClock.isPlaying = TRUE] ELSE e2

\* playAll after its `await this.resume()`
enginePlayAll(e, t) ==
    LET r == e.currentRouting
        e1 == IF r.left.type = "audio" THEN playAudioTrack(e, r.left.id) ELSE e
        e2 == IF r.right.type = "audio" /\ r.right.id # r.left.id
              THEN playAudioTrack(e1, r.right.id) ELSE e1
    IN [e2 EXCEPT !.playStartContextTime = t,
                  !.playStartOffset = e.masterClock.currentTime,
                  !.masterClock.isPlaying = TRUE]

\* a pauseAll that keeps the time base after freezing the clock
enginePauseAllKeepBase(e, t) ==
    LET e1 == stopTracks(e, {id \in TrackIds : e.audioTracks[id].present})
        e2 == IF e.playStartContextTime # None
              THEN [e1 EXCEPT !.masterClock.currentTime =
                        e.playStartOffset + Max(0, t - e.playStartContextTime)]
              ELSE e1
    IN [e2 EXCEPT !.masterClock.isPlaying = FALSE]

\* a pauseAll that does not freeze the clock at the elapsed position
enginePauseAllNoFreeze(e, t) ==
    [stopTracks(e, {id \in TrackIds : e.audioTracks[id].present})
        EXCEPT !.playStartContextTime = None,
               !.masterClock.isPlaying = FALSE]

enginePauseAll(e, t) ==
    LET e1 == stopTracks(e, {id \in TrackIds : e.audioTracks[id].present})
        e2 == IF e.playStartContextTime # None
              THEN [e1 EXCEPT !.masterClock.currentTime =
                        e.playStartOffset + Max(0, t - e.playStartContextTime)]
              ELSE e1
    IN [e2 EXCEPT !.playStartContextTime = None,
                  !.masterClock.isPlaying = FALSE]

\* seekAll without its timer: the caller schedules the restart when the
\* clock was playing
engineSeekAll(e, time, t) ==
    LET e1 == [e EXCEPT !.masterClock.currentTime = time]
    IN IF e1.masterClock.isPlaying THEN enginePauseAll(e1, t) ELSE e1

RECURSIVE SetMax(_)
SetMax(S) ==
    LET x == CHOOSE y \in S : TRUE
    IN IF S = {x} THEN x ELSE Max(x, SetMax(S \ {x}))

\* a duration taken over every loaded track, routed or not
getMasterAudioDurationAllTracks(e) ==
    LET durations ==
          {e.audioTracks[id].buffer :
              id \in {x \in TrackIds : /\ e.audioTracks[x].present
                                       /\ e.audioTracks[x].buffer # 0}}
    IN IF durations = {} THEN None ELSE SetMax(durations)

getMasterAudioDuration(e) ==
    LET durations ==
          {e.audioTracks[s.id].buffer :
              s \in {x \in {e.currentRouting.left, e.currentRouting.right} :
                       /\ x.type = "audio" /\ x.id \in TrackIds
                       /\ e.audioTracks[x.id].present
                       /\ e.audioTracks[x.id].buffer # 0}}
    IN IF durations = {} THEN None ELSE SetMax(durations)

\* ----------------------------------------------------------- VideoManager
\* source[pos] is topVideoSource / bottomVideoSource; the player of a
\* position exists exactly when its source does.  paused and time are what
\* the player's isPaused() and getCurrentTime() report.  issued[pos] lists
\* the calls that the operation performed last made on the position's player.
\*
\* A deferred-play timer keeps the player and the offset its callback
\* closes over: kind is the kind of that player and stale says that
\* loadVideo has replaced it since.  A replaced NativeVideoPlayer still
\* drives the position's <video> element; a replaced YouTubePlayer is
\* destroyed and ignores every call.
NoTimer == [deadline |-> None, offset |-> 0, kind |-> "", stale |-> FALSE]
Cmd(c, t) == [c |-> c, t |-> t]

InitVideo ==
    [source |-> [p \in Positions |-> NoVideo],
     paused |-> [p \in Positions |-> TRUE],
     time |-> [p \in Positions |-> 0],
     pendingPlayTimeouts |-> [p \in Positions |-> NoTimer],
     playRequested |-> FALSE,
     issued |-> [p \in Positions |-> <<>>]]

hasPlayer(v, pos) == v.source[pos] # NoVideo

\* the player currently stored at a position, as a timer would capture it
currentPlayer(v, pos) ==
    [kind |-> IF hasPlayer(v, pos) THEN VideoKind[v.source[pos]] ELSE "",
     stale |-> FALSE]

\* whether calls on the captured player pl reach the position's player
reaches(v, pos, pl) ==
    \/ ~pl.stale
    \/ pl.kind = "mp4" /\ hasPlayer(v, pos) /\ VideoKind[v.source[pos]] = "mp4"

getOffsetFor(v, pos) ==
    IF v.source[pos] = NoVideo THEN 0 ELSE VideoOffset[v.source[pos]]

clearPendingPlay(v, pos) ==
    IF v.pendingPlayTimeouts[pos].deadline # None
    THEN [v EXCEPT !.pendingPlayTimeouts[pos] = NoTimer]
    ELSE v

calculateTargetTime(v, pos, masterTime) ==
    LET targetTime == masterTime + getOffsetFor(v, pos)
    IN IF targetTime < 0 THEN 0 ELSE targetTime

\* NativeVideoPlayer.seek clamps to [0, duration]; YouTubePlayer.seek passes
\* the time to the embedded player, which does the same.
playerSeek(v, pos, pl, time) ==
    IF ~reaches(v, pos, pl) THEN v
    ELSE [v EXCEPT !.time[pos] = Max(0, Min(time, VideoLength)),
                   !.issued[pos] = Append(@, Cmd("seek", time))]

playerPause(v, pos, pl) ==
    IF ~reaches(v, pos, pl) THEN v
    ELSE [v EXCEPT !.paused[pos] = TRUE,
                   !.issued[pos] = Append(@, Cmd("pause", 0))]

\* play(): ok says whether the player starts.  A player that is already
\* playing stays playing.
playerPlay(v, pos, pl, ok) ==
    IF ~reaches(v, pos, pl) THEN v
    ELSE [v EXCEPT !.paused[pos] = IF ok THEN FALSE ELSE @,
                   !.issued[pos] = Append(@, Cmd("play", 0))]

\* NativeVideoPlayer.play rethrows the rejection of video.play();
\* YouTubePlayer.play resolves at PLAYING or after its 2 s timeout.
playRejects(v, pos, ok) ==
    /\ hasPlayer(v, pos)
    /\ VideoKind[v.source[pos]] = "mp4"
    /\ ~ok /\ v.paused[pos]

applySeekWithOffset(v, pos, pl, masterTime) ==
    playerSeek(v, pos, pl, calculateTargetTime(v, pos, masterTime))

\* one threshold for every kind of player
getSyncThresholdNative(v, pos) == nativeSyncThresholdSeconds

getSyncThreshold(v, pos) ==
    IF VideoKind[v.source[pos]] = "youtube"
    THEN youtubeSyncThresholdSeconds ELSE nativeSyncThresholdSeconds

\* playWithOffset up to its `await player.play()`; t is the time of the call
playWithOffset(v, pos, pl, masterTime, t, ok) ==
    LET offset == getOffsetFor(v, pos)
        desiredTime == masterTime + offset
        v1 == clearPendingPlay(v, pos)
        v2 == applySeekWithOffset(v1, pos, pl, masterTime)
    IN IF desiredTime < 0
       THEN [playerPause(v2, pos, pl) EXCEPT !.pendingPlayTimeouts[pos] =
                [deadline |-> t + Max(0, Abs(desiredTime)), offset |-> offset,
                 kind |-> pl.kind, stale |-> pl.stale]]
       ELSE playerPlay(v2, pos, pl, ok)

videoPlayAll(v, masterTime, t, ok) ==
    LET v0 == [v EXCEPT !.playRequested = TRUE]
        v1 == IF hasPlayer(v0, "top")
              THEN playWithOffset(v0, "top", currentPlayer(v0, "top"),
                                  masterTime, t, ok["top"])
              ELSE v0
    IN IF hasPlayer(v1, "bottom")
       THEN playWithOffset(v1, "bottom", currentPlayer(v1, "bottom"),
                           masterTime, t, ok["bottom"])
       ELSE v1

\* the positions whose player.play() videoPlayAll awaits
awaitedPlays(v, masterTime) ==
    {p \in Positions : hasPlayer(v, p) /\ masterTime + getOffsetFor(v, p) >= 0}

\* a pauseAll that leaves the deferred-play timers pending
videoPauseAllKeepTimers(v) ==
    LET v0 == [v EXCEPT !.playRequested = FALSE]
        v2 == IF hasPlayer(v0, "top")
              THEN playerPause(v0, "top", currentPlayer(v0, "top")) ELSE v0
    IN IF hasPlayer(v2, "bottom")
       THEN playerPause(v2, "bottom", currentPlayer(v2, "bottom")) ELSE v2

videoPauseAll(v) ==
    LET v0 == [v EXCEPT !.playRequested = FALSE]
        v1 == clearPendingPlay(clearPendingPlay(v0, "top"), "bottom")
        v2 == IF hasPlayer(v1, "top")
              THEN playerPause(v1, "top", currentPlayer(v1, "top")) ELSE v1
    IN IF hasPlayer(v2, "bottom")
       THEN playerPause(v2, "bottom", currentPlayer(v2, "bottom")) ELSE v2

\* a seekAll that also pauses the players it seeks
videoSeekAllPausing(v, time) ==
    LET v1 == IF hasPlayer(v, "top")
              THEN playerPause(applySeekWithOffset(v, "top",
                                  currentPlayer(v, "top"), time),
                               "top", currentPlayer(v, "top"))
              ELSE v
    IN IF hasPlayer(v1, "bottom")
       THEN playerPause(applySeekWithOffset(v1, "bottom",
                           currentPlayer(v1, "bottom"), time),
                        "bottom", currentPlayer(v1, "bottom"))
       ELSE v1

videoSeekAll(v, time) ==
    LET v1 == IF hasPlayer(v, "top")
              THEN applySeekWithOffset(v, "top", currentPlayer(v, "top"), time)
              ELSE v
    IN IF hasPlayer(v1, "bottom")
       THEN applySeekWithOffset(v1, "bottom", currentPlayer(v1, "bottom"), time)
       ELSE v1

\* the body of syncToMaster's forEach for one active player
syncPlayer(v, pos, masterTime, ok) ==
    LET offset == getOffsetFor(v, pos)
        pl == currentPlayer(v, pos)
        targetTime == calculateTargetTime(v, pos, masterTime)
        drift == Abs((v.time[pos] - offset) - masterTime)
        v1 == IF drift > getSyncThreshold(v, pos)
              THEN applySeekWithOffset(v, pos, pl, masterTime) ELSE v
    IN IF targetTime >= 0 /\ v1.paused[pos]
          /\ v1.pendingPlayTimeouts[pos].deadline = None
       THEN playerPlay(v1, pos, pl, ok) ELSE v1

syncToMaster(v, masterTime, ok) ==
    IF ~v.playRequested THEN v
    ELSE LET v1 == IF hasPlayer(v, "top")
                   THEN syncPlayer(v, "top", masterTime, ok["top"]) ELSE v
         IN IF hasPlayer(v1, "bottom")
            THEN syncPlayer(v1, "bottom", masterTime, ok["bottom"]) ELSE v1

\* a timer callback that plays without reading the master time again
deferredPlayNoRecheck(v, pos, currentMaster, t, ok) ==
    LET tm == v.pendingPlayTimeouts[pos]
        pl == [kind |-> tm.kind, stale |-> tm.stale]
        v0 == [v EXCEPT !.pendingPlayTimeouts[pos] = NoTimer]
    IN IF ~v.playRequested THEN v0
       ELSE playerPlay(applySeekWithOffset(v0, pos, pl, currentMaster), pos, pl, ok)

\* the callback of the deferred-play timer of a position
deferredPlay(v, pos, currentMaster, t, ok) ==
    LET tm == v.pendingPlayTimeouts[pos]
        pl == [kind |-> tm.kind, stale |-> tm.stale]
        v0 == [v EXCEPT !.pendingPlayTimeouts[pos] = NoTimer]
        v1 == applySeekWithOffset(v0, pos, pl, currentMaster)
    IN IF ~v.playRequested THEN v0
       ELSE IF currentMaster + tm.offset < 0
            THEN playWithOffset(v1, pos, pl, currentMaster, t, ok)
            ELSE playerPlay(v1, pos, pl, ok)

\* loadVideo, without the await of player.load: the old player is destroyed,
\* the new one starts paused at 0; a pending timer is left alone
loadVideo(v, pos, src) ==
    [v EXCEPT !.source[pos] = src,
              !.paused[pos] = TRUE,
              !.time[pos] = 0,
              !.pendingPlayTimeouts[pos] =
                  IF @.deadline # None THEN [@ EXCEPT !.stale = TRUE] ELSE @]

unloadVideo(v, pos) ==
    LET v1 == clearPendingPlay(v, pos)
    IN IF hasPlayer(v1, pos)
       THEN [v1 EXCEPT !.source[pos] = NoVideo,
                       !.paused[pos] = TRUE,
                       !.time[pos] = 0]
       ELSE v1

\* ------------------------------------------------- the strip of a track
\* Pixels are fixed-point numbers with Sub steps per CSS pixel, and so is
\* a time inside positionPx; every product and quotient is rounded down to
\* a step.  clientWidth is container.clientWidth, trackWidth the width of
\* the strip's image (0 while the strip has no image), tx the translateX
\* of the wrapper.
NoVisuals == [clientWidth |-> 0, trackWidth |-> 0, tx |-> 0]

centerOf(viewportWidth) == (viewportWidth * Sub) \div 2

\* a translation computed from the viewport's width instead of the strip's
positionPxViewport(timeFx, audioDuration, viewportWidth, trackWidth) ==
    LET clamped == Max(0, Min(timeFx, audioDuration * Sub))
        x == (clamped * viewportWidth) \div audioDuration
        centerX == centerOf(viewportWidth)
        minTx == centerX - trackWidth * Sub
    IN Max(minTx, Min(centerX, centerX - x))

\* a translation with neither the time nor the result clamped
positionPxUnclamped(timeFx, audioDuration, viewportWidth, trackWidth) ==
    centerOf(viewportWidth) - (timeFx * trackWidth) \div audioDuration

\* The mapping from a translation back to a time, for click and drag to
\* seek: t = clamp(((V/2 - px) / W) * masterDuration, 0, masterDuration).
\* The renderer of this version has no seek gesture (the plan's
\* interact/seek.ts), so it follows the specification.
inversePositionPx(px, audioDuration, viewportWidth, trackWidth) ==
    Max(0, Min(audioDuration * Sub,
               ((centerOf(viewportWidth) - px) * audioDuration) \div trackWidth))

\* positionWrapper's translation for a valid duration
positionPx(timeFx, audioDuration, viewportWidth, trackWidth) ==
    LET clamped == Max(0, Min(timeFx, audioDuration * Sub))
        x == (clamped * trackWidth) \div audioDuration
        centerX == centerOf(viewportWidth)
        minTx == centerX - trackWidth * Sub
    IN Max(minTx, Min(centerX, centerX - x))

positionWrapper(vis, timeSec, audioDuration) ==
    IF vis.trackWidth = 0 THEN vis
    ELSE IF audioDuration = None \/ audioDuration <= 0
         THEN IF timeSec = 0
              THEN [vis EXCEPT !.tx = centerOf(vis.clientWidth)]
              ELSE vis
         ELSE [vis EXCEPT !.tx = positionPx(timeSec * Sub, audioDuration,
                                             vis.clientWidth, vis.trackWidth)]

updateAllVisualsPosition(vis, timeSec, e) ==
    positionWrapper(vis, timeSec, getMasterAudioDuration(e))

ClearIssued(v) == [v EXCEPT !.issued = [p \in Positions |-> <<>>]]
ClearStarted(e) == [e EXCEPT !.started = {}]

\* ---------------------------------------------------------- YouTubePlayer
\* One play() call on a YouTubePlayer.  clock is Date.now() and the timer
\* clock in ticks of 10 ms; state is what player.getPlayerState() returns,
\* which the embedded player changes on its own; timeout and poll are the
\* deadlines of the 2000 ms timer and of the next checkPlaying, or None;
\* call is the promise play() returned; start and settledAt are the
\* clock at the call and at the settlement.
PlayerStates == {"UNSTARTED", "ENDED", "PLAYING", "PAUSED", "BUFFERING", "CUED"}

InitYtPlay ==
    [player |-> FALSE, state |-> "UNSTARTED", clock |-> 0, call |-> "none",
     start |-> 0, settledAt |-> None, timeout |-> None, poll |-> None]

\* resolve(undefined): the first settlement of a promise is the only one
resolvePlay(y) ==
    IF y.call = "pending"
    THEN [y EXCEPT !.call = "resolved", !.settledAt = y.clock]
    ELSE y

cleanup(y) == [y EXCEPT !.timeout = None]

play(y) ==
    IF ~y.player
    THEN [y EXCEPT !.call = "rejected", !.start = y.clock, !.settledAt = y.clock]
    ELSE LET y1 == [y EXCEPT !.call = "pending", !.start = y.clock,
                             !.settledAt = None,
                             !.timeout = y.clock + PlayTimeout]
         IN IF y1.state = "PLAYING"
            THEN resolvePlay(cleanup(y1))
            ELSE [y1 EXCEPT !.poll = y.clock + PollInterval]

\* a timeout callback that only logs
onPlayTimeoutLogOnly(y) == cleanup(y)

\* the callback of the 2000 ms timer
onPlayTimeout(y) == resolvePlay(cleanup(y))

checkPlaying(y) ==
    IF y.state = "PLAYING"
    THEN [resolvePlay(cleanup(y)) EXCEPT !.poll = None]
    ELSE [y EXCEPT !.poll = y.clock + PollInterval]

\* ------------------------------------------------------------ ConfigLoader
\* A text is a sequence of characters, each written by a name: dq is the
\* double quote, sq the single quote, sl the slash, st the asterisk, bs the
\* backslash, nl and cr the line breaks, a any other character.
Chars == {"dq", "sq", "sl", "st", "bs", "nl", "cr", "a"}
Texts == UNION {[1..n -> Chars] : n \in 0..MaxLen}

NoConfig == [text |-> <<>>, json |-> <<>>]

charAt(input, i) == IF i <= Len(input) THEN input[i] ELSE ""

\* a loop that ends a string at every quote, escaped or not
RECURSIVE stripLoopNoEscape(_, _, _, _, _, _)
stripLoopNoEscape(input, i, out, stringQuote, inSingleLine, inMultiLine) ==
    IF i > Len(input) THEN out
    ELSE LET ch == input[i]
             next == charAt(input, i + 1)
         IN IF inSingleLine
            THEN IF ch \in {"nl", "cr"}
                 THEN stripLoopNoEscape(input, i + 1, Append(out, ch), "", FALSE, FALSE)
                 ELSE stripLoopNoEscape(input, i + 1, out, "", TRUE, FALSE)
            ELSE IF inMultiLine
            THEN IF ch = "st" /\ next = "sl"
                 THEN stripLoopNoEscape(input, i + 2, out, "", FALSE, FALSE)
                 ELSE stripLoopNoEscape(input, i + 1, out, "", FALSE, TRUE)
            ELSE IF stringQuote # ""
            THEN stripLoopNoEscape(input, i + 1, Append(out, ch),
                                   IF ch = stringQuote THEN "" ELSE stringQuote,
                                   FALSE, FALSE)
            ELSE IF ch \in {"dq", "sq"}
            THEN stripLoopNoEscape(input, i + 1, Append(out, ch), ch, FALSE, FALSE)
            ELSE IF ch = "sl" /\ next = "sl"
            THEN stripLoopNoEscape(input, i + 2, out, "", TRUE, FALSE)
            ELSE IF ch = "sl" /\ next = "st"
            THEN stripLoopNoEscape(input, i + 2, out, "", FALSE, TRUE)
            ELSE stripLoopNoEscape(input, i + 1, Append(out, ch), "", FALSE, FALSE)

\* the while loop of stripJsonComments from index i (1-based) on;
\* stringQuote "" is null, and inString is stringQuote # ""
RECURSIVE stripLoop(_, _, _, _, _, _)
stripLoop(input, i, out, stringQuote, inSingleLine, inMultiLine) ==
    IF i > Len(input) THEN out
    ELSE LET ch == input[i]
             next == charAt(input, i + 1)
         IN IF inSingleLine
            THEN IF ch \in {"nl", "cr"}
                 THEN stripLoop(input, i + 1, Append(out, ch), "", FALSE, FALSE)
                 ELSE stripLoop(input, i + 1, out, "", TRUE, FALSE)
            ELSE IF inMultiLine
            THEN IF ch = "st" /\ next = "sl"
                 THEN stripLoop(input, i + 2, out, "", FALSE, FALSE)
                 ELSE stripLoop(input, i + 1, out, "", FALSE, TRUE)
            ELSE IF stringQuote # ""
            THEN IF ch = "bs" /\ i + 1 <= Len(input)
                 THEN stripLoop(input, i + 2, Append(Append(out, ch), input[i + 1]),
                                stringQuote, FALSE, FALSE)
                 ELSE stripLoop(input, i + 1, Append(out, ch),
                                IF ch = stringQuote THEN "" ELSE stringQuote,
                                FALSE, FALSE)
            ELSE IF ch \in {"dq", "sq"}
            THEN stripLoop(input, i + 1, Append(out, ch), ch, FALSE, FALSE)
            ELSE IF ch = "sl" /\ next = "sl"
            THEN stripLoop(input, i + 2, out, "", TRUE, FALSE)
            ELSE IF ch = "sl" /\ next = "st"
            THEN stripLoop(input, i + 2, out, "", FALSE, TRUE)
            ELSE stripLoop(input, i + 1, Append(out, ch), "", FALSE, FALSE)

stripJsonComments(input) == stripLoop(input, 1, <<>>, "", FALSE, FALSE)

\* ---------------------------------------------- the renderers of a strip
\* A JavaScript number is a binary64.  floorLog2(n, d) is the exponent of
\* n / d: the largest e with 2^e * d <= n.  divide(L, w) is the number that
\* L / w evaluates to: the quotient rounded to 53 significant bits, kept as
\* the exact L / w and the rounding error, so that the number is
\* num / den - err / (den * 2^(MantissaBits - exp)).  (A tie cannot occur
\* for a 32-bit num: the error is never half a unit of the last place.)
RECURSIVE floorLog2(_, _)
floorLog2(n, d) == IF 2 * d <= n THEN 1 + floorLog2(n, 2 * d) ELSE 0

RECURSIVE pow2mod(_, _)
pow2mod(k, w) == IF k = 0 THEN 1 % w ELSE (2 * pow2mod(k - 1, w)) % w

divide(L, w) ==
    LET exp == floorLog2(L, w)
        r0 == (L * pow2mod(MantissaBits - exp, w)) % w
    IN [num |-> L, den |-> w, exp |-> exp,
        err |-> IF 2 * r0 > w THEN r0 - w ELSE r0]

\* Math.floor(x * spp): the product is rounded to 53 significant bits, ties
\* to even, and then floored.  With Q the floor of the exact x * num / den:
\* unless den divides x * num the product is further from an integer than
\* any rounding reaches and the result is Q; when it does and spp was
\* rounded down, the product lies below the integer Q by
\* x * err / (den * 2^(MantissaBits - exp)) and rounds to Q exactly when
\* that is at most half the distance from Q to the number before it.
floorTimes(x, spp) ==
    LET Q == (x * spp.num) \div spp.den
        s == (x * spp.num) % spp.den
        e == floorLog2(Q, 1)
        b == IF Q = 2^e THEN 1 ELSE 0
    IN IF x = 0 \/ s # 0 \/ spp.err <= 0 THEN Q
       ELSE IF x * spp.err * 2^(1 + b + spp.exp) > spp.den * 2^e
            THEN Q - 1 ELSE Q

\* the slice of samples of column x in renderWaveformPng
columnSlice(x, length, width) ==
    LET samplesPerPixel == divide(length, width)
    IN [start |-> floorTimes(x, samplesPerPixel),
        end |-> Min(length, floorTimes(x + 1, samplesPerPixel))]

\* a fracCanvas that grows downwards
fracCanvasDownward(yCanvas, height) ==
    [num |-> yCanvas, den |-> height - 1]

\* 1 - yCanvas / (height - 1), as a fraction
fracCanvas(yCanvas, height) ==
    [num |-> (height - 1) - yCanvas, den |-> height - 1]

\* the magnitude bin that row yCanvas of renderSpectrogramPng reads.  For
\* the heights modelled the exact square times 511 is either an integer
\* reached at fracCanvas 0 or 1, which a binary64 holds exactly, or further
\* from an integer than 1 / (height - 1)^2, so rounding leaves the floor.
binIndex(yCanvas, height) ==
    LET f == fracCanvas(yCanvas, height)
    IN Min(MagnitudeBins - 1,
           (f.num * f.num * (MagnitudeBins - 1)) \div (f.den * f.den))

\* ------------------------------------------- loads of videos, and their gate
\* Every loadVideo call makes a player, numbered by the order of the calls.
\* pending are the calls waiting in `await player.load`, player[pos] is
\* topPlayer / bottomPlayer, live the players made and not destroyed,
\* done the players whose load has resolved, and latest[pos] the most
\* recent call for the position.
NoRequest == [n |-> None, src |-> NoVideo]
NoVideoLoads ==
    [next |-> 0,
     pending |-> {},
     player |-> [p \in Positions |-> None],
     live |-> {},
     done |-> {},
     latest |-> [p \in Positions |-> NoRequest]]

\* loadVideo up to its await: the stored player is destroyed, a new one made
beginLoadVideo(l, pos, src) ==
    [l EXCEPT !.next = @ + 1,
              !.pending = @ \cup {[pos |-> pos, src |-> src, n |-> l.next]},
              !.live = (@ \ {l.player[pos]}) \cup {l.next},
              !.player[pos] = None,
              !.latest[pos] = [n |-> l.next, src |-> src]]

\* loadVideo after its await: the player is stored
completeLoadVideo(l, req) ==
    [l EXCEPT !.pending = @ \ {req},
              !.done = @ \cup {req.n},
              !.player[req.pos] = req.n]

\* player.load rejects: loadVideo throws, nothing is stored
failLoadVideo(l, req) ==
    [l EXCEPT !.pending = @ \ {req}]

beginMediaLoad(n) == n + 1

endMediaLoad(n) == IF n > 0 THEN n - 1 ELSE n

\* a gate that is always open
isMediaLoadingNever(n) == FALSE

isMediaLoading(n) == n > 0

NoCanvas == [kind |-> "none", width |-> 0, height |-> 0, length |-> 0,
             next |-> 0, cols |-> <<>>, rows |-> <<>>]

InitStandalone ==
    /\ ytPlay = InitYtPlay
    /\ config = NoConfig
    /\ canvas = NoCanvas
    /\ videoLoads = NoVideoLoads
    /\ pendingMediaLoads = 0

\* ---------------------------------------------------------- MusicPlayerApp
\* lastOp: t is the operation's time argument or the master time it read,
\* wasPlaying the clock's isPlaying before it, resumed whether a play
\* directly followed a pause
Op(name, t, wasPlaying) ==
    [name |-> name, t |-> t, wasPlaying |-> wasPlaying, resumed |-> FALSE]
Outcomes == [Positions -> BOOLEAN]
Read == getMasterClock(audioEngine, now).currentTime
Inflight == playsResuming + playsAwaiting.ok + playsAwaiting.fail

Init ==
    /\ now = 0
    /\ ctxSuspended = TRUE
    /\ audioEngine = InitEngine
    /\ loads = [id \in TrackIds |-> [cur |-> FALSE, old |-> 0]]
    /\ restartTimers = <<>>
    /\ videoManager = InitVideo
    /\ isPlaying = FALSE
    /\ playbackEnded = FALSE
    /\ cursorRaf = FALSE
    /\ playsResuming = 0
    /\ playsAwaiting = [ok |-> 0, fail |-> 0]
    /\ lastOp = Op("init", 0, FALSE)
    /\ visuals = NoVisuals
    /\ InitStandalone

\* a play that reads the clock and starts the videos before the audio
StartPlaybackVideoFirst(e, v, ok) ==
    LET clock == getMasterClock(e, now)
        v2 == videoPlayAll(v, clock.currentTime, now, ok)
        e2 == enginePlayAll(e, now)
        awaited == awaitedPlays(v, clock.currentTime)
        rejected == \E p \in awaited : playRejects(v, p, ok[p])
    IN /\ audioEngine' = e2
       /\ videoManager' = v2
       /\ lastOp' = [Op("play", clock.currentTime, e.masterClock.isPlaying)
                        EXCEPT !.resumed = (lastOp.name = "pause")]
       /\ IF awaited = {}
          THEN /\ isPlaying' = TRUE
               /\ cursorRaf' = TRUE
               /\ UNCHANGED playsAwaiting
          ELSE /\ playsAwaiting' =
                    [playsAwaiting EXCEPT ![IF rejected THEN "fail" ELSE "ok"] = @ + 1]
               /\ UNCHANGED <<isPlaying, cursorRaf>>

\* togglePlayPause from `await this.audioEngine.playAll()` to the await of
\* videoManager.playAll, and to its end when no player.play() is awaited
StartPlayback(e, v, ok) ==
    LET e2 == enginePlayAll(e, now)
        clock == getMasterClock(e2, now)
        v2 == videoPlayAll(v, clock.currentTime, now, ok)
        awaited == awaitedPlays(v, clock.currentTime)
        rejected == \E p \in awaited : playRejects(v, p, ok[p])
    IN /\ audioEngine' = e2
       /\ videoManager' = v2
       /\ lastOp' = [Op("play", clock.currentTime, e.masterClock.isPlaying)
                        EXCEPT !.resumed = (lastOp.name = "pause")]
       /\ IF awaited = {}
          THEN /\ isPlaying' = TRUE
               /\ cursorRaf' = TRUE
               /\ UNCHANGED playsAwaiting
          ELSE /\ playsAwaiting' =
                    [playsAwaiting EXCEPT ![IF rejected THEN "fail" ELSE "ok"] = @ + 1]
               /\ UNCHANGED <<isPlaying, cursorRaf>>

\* a seekTo that passes its argument on unclamped
seekToEngineUnclamped(e, timeSec) == engineSeekAll(e, timeSec, now)

\* seekTo: the engine's seekAll with its restart timer, then the videos
seekToEngine(e, timeSec) == engineSeekAll(e, Max(0, timeSec), now)
seekToTimers(e, timers) ==
    IF e.masterClock.isPlaying
    THEN Append(timers, now + SeekRestartDelay) ELSE timers
seekToVideo(v, timeSec) == videoSeekAll(v, Max(0, timeSec))
seekToVisuals(vis, timeSec, e) == updateAllVisualsPosition(vis, Max(0, timeSec), e)

\* togglePlayPause while media is loading: the click is ignored
TogglePlayIgnored ==
    /\ ~isPlaying
    /\ isMediaLoading(pendingMediaLoads)
    /\ audioEngine' = ClearStarted(audioEngine)
    /\ videoManager' = ClearIssued(videoManager)
    /\ lastOp' = Op("playIgnored", 0, FALSE)
    /\ UNCHANGED <<standalone, visuals, now, ctxSuspended, loads, restartTimers, isPlaying,
                   playbackEnded, cursorRaf, playsResuming, playsAwaiting>>

TogglePlayRefused ==
    /\ ~isPlaying
    /\ ~isMediaLoading(pendingMediaLoads)
    /\ LET duration == getMasterAudioDuration(audioEngine)
       IN duration = None \/ duration <= 0
    /\ audioEngine' = ClearStarted(audioEngine)
    /\ videoManager' = ClearIssued(videoManager)
    /\ lastOp' = Op("playRefused", 0, FALSE)
    /\ UNCHANGED <<standalone, visuals, now, ctxSuspended, loads, restartTimers, isPlaying,
                   playbackEnded, cursorRaf, playsResuming, playsAwaiting>>

TogglePlay ==
    /\ ~isPlaying
    /\ ~isMediaLoading(pendingMediaLoads)
    /\ Inflight < MaxInflight
    /\ LET e0 == ClearStarted(audioEngine)
           v0 == ClearIssued(videoManager)
           duration == getMasterAudioDuration(audioEngine)
           clockBeforeStart == getMasterClock(audioEngine, now)
           reachedEnd == \/ playbackEnded
                         \/ clockBeforeStart.currentTime >= duration - EndMargin
           e1 == IF reachedEnd THEN seekToEngine(e0, 0) ELSE e0
           v1 == IF reachedEnd THEN seekToVideo(v0, 0) ELSE v0
       IN /\ duration # None /\ duration > 0
          /\ reachedEnd /\ e0.masterClock.isPlaying => Len(restartTimers) < MaxTimers
          /\ restartTimers' = IF reachedEnd THEN seekToTimers(e0, restartTimers)
                                            ELSE restartTimers
          /\ playbackEnded' = FALSE
          /\ visuals' = IF reachedEnd THEN seekToVisuals(visuals, 0, e0)
                                      ELSE visuals
          /\ IF ctxSuspended
             THEN /\ playsResuming' = playsResuming + 1
                  /\ audioEngine' = e1
                  /\ videoManager' = v1
                  /\ lastOp' = Op("playBegin", 0, FALSE)
                  /\ UNCHANGED <<isPlaying, cursorRaf, playsAwaiting>>
             ELSE /\ \E ok \in Outcomes : StartPlayback(e1, v1, ok)
                  /\ UNCHANGED playsResuming
    /\ UNCHANGED <<standalone, now, ctxSuspended, loads>>

PlayResumed ==
    /\ playsResuming > 0
    /\ playsResuming' = playsResuming - 1
    /\ ctxSuspended' = FALSE
    /\ \E ok \in Outcomes :
          StartPlayback(ClearStarted(audioEngine), ClearIssued(videoManager), ok)
    /\ UNCHANGED <<standalone, visuals, now, loads, restartTimers, playbackEnded>>

PlayStarted ==
    /\ playsAwaiting.ok > 0
    /\ playsAwaiting' = [playsAwaiting EXCEPT !.ok = @ - 1]
    /\ isPlaying' = TRUE
    /\ cursorRaf' = TRUE
    /\ audioEngine' = ClearStarted(audioEngine)
    /\ videoManager' = ClearIssued(videoManager)
    /\ lastOp' = Op("playDone", 0, FALSE)
    /\ UNCHANGED <<standalone, visuals, now, ctxSuspended, loads, restartTimers, playbackEnded,
                   playsResuming>>

PlayFailed ==
    /\ playsAwaiting.fail > 0
    /\ playsAwaiting' = [playsAwaiting EXCEPT !.fail = @ - 1]
    /\ isPlaying' = FALSE
    /\ audioEngine' = ClearStarted(audioEngine)
    /\ videoManager' = ClearIssued(videoManager)
    /\ lastOp' = Op("playFailed", 0, FALSE)
    /\ UNCHANGED <<standalone, visuals, now, ctxSuspended, loads, restartTimers, playbackEnded,
                   cursorRaf, playsResuming>>

TogglePause ==
    /\ isPlaying
    /\ videoManager' = videoPauseAll(ClearIssued(videoManager))
    /\ audioEngine' = enginePauseAll(ClearStarted(audioEngine), now)
    /\ isPlaying' = FALSE
    /\ playbackEnded' = FALSE
    /\ lastOp' = Op("pause", Read, audioEngine.masterClock.isPlaying)
    /\ UNCHANGED <<standalone, visuals, now, ctxSuspended, loads, restartTimers, cursorRaf,
                   playsResuming, playsAwaiting>>

SeekTo(timeSec) ==
    /\ audioEngine.masterClock.isPlaying => Len(restartTimers) < MaxTimers
    /\ audioEngine' = seekToEngine(ClearStarted(audioEngine), timeSec)
    /\ restartTimers' = seekToTimers(audioEngine, restartTimers)
    /\ videoManager' = seekToVideo(ClearIssued(videoManager), timeSec)
    /\ visuals' = seekToVisuals(visuals, timeSec, audioEngine)
    /\ lastOp' = Op("seek", timeSec, audioEngine.masterClock.isPlaying)
    /\ UNCHANGED <<standalone, now, ctxSuspended, loads, isPlaying, playbackEnded,
                   cursorRaf, playsResuming, playsAwaiting>>

\* the timer of seekAll fires: playAll(), whose resume() finds the context
\* running
RestartPlayback ==
    /\ restartTimers # <<>>
    /\ Head(restartTimers) <= now
    /\ restartTimers' = Tail(restartTimers)
    /\ audioEngine' = enginePlayAll(ClearStarted(audioEngine), now)
    /\ videoManager' = ClearIssued(videoManager)
    /\ lastOp' = Op("restart", 0, audioEngine.masterClock.isPlaying)
    /\ UNCHANGED <<standalone, visuals, now, ctxSuspended, loads, isPlaying, playbackEnded,
                   cursorRaf, playsResuming, playsAwaiting>>

applyRoutingFromSelectors(left, right) ==
    /\ lastOp' = Op("setRouting", Read, audioEngine.masterClock.isPlaying)
    /\ audioEngine' = setRouting(ClearStarted(audioEngine),
                                 [left |-> left, right |-> right], now)
    /\ videoManager' = ClearIssued(videoManager)
    /\ UNCHANGED <<standalone, visuals, now, ctxSuspended, loads, restartTimers, isPlaying,
                   playbackEnded, cursorRaf, playsResuming, playsAwaiting>>

\* the tick of startCursorLoop, which reschedules itself
CursorTick ==
    /\ cursorRaf
    /\ LET clock == getMasterClock(audioEngine, now)
       IN /\ \E ok \in Outcomes :
                videoManager' =
                   IF isPlaying
                   THEN syncToMaster(ClearIssued(videoManager), clock.currentTime, ok)
                   ELSE ClearIssued(videoManager)
          /\ visuals' = updateAllVisualsPosition(visuals, clock.currentTime,
                                                 audioEngine)
          /\ lastOp' = Op("tick", clock.currentTime, clock.isPlaying)
    /\ audioEngine' = ClearStarted(audioEngine)
    /\ UNCHANGED <<standalone, now, ctxSuspended, loads, restartTimers, isPlaying,
                   playbackEnded, cursorRaf, playsResuming, playsAwaiting>>

DeferredPlayFires(pos) ==
    /\ videoManager.pendingPlayTimeouts[pos].deadline # None
    /\ videoManager.pendingPlayTimeouts[pos].deadline <= now
    /\ \E ok \in BOOLEAN :
          videoManager' = deferredPlay(ClearIssued(videoManager), pos, Read, now, ok)
    /\ audioEngine' = ClearStarted(audioEngine)
    /\ lastOp' = Op("deferred", 0, FALSE)
    /\ UNCHANGED <<standalone, visuals, now, ctxSuspended, loads, restartTimers, isPlaying,
                   playbackEnded, cursorRaf, playsResuming, playsAwaiting>>

LoadVideo(pos, src) ==
    /\ videoManager' = loadVideo(ClearIssued(videoManager), pos, src)
    /\ audioEngine' = ClearStarted(audioEngine)
    /\ lastOp' = Op("loadVideo", 0, FALSE)
    /\ UNCHANGED <<standalone, visuals, now, ctxSuspended, loads, restartTimers, isPlaying,
                   playbackEnded, cursorRaf, playsResuming, playsAwaiting>>

UnloadVideo(pos) ==
    /\ hasPlayer(videoManager, pos)
    /\ videoManager' = unloadVideo(ClearIssued(videoManager), pos)
    /\ audioEngine' = ClearStarted(audioEngine)
    /\ lastOp' = Op("unloadVideo", 0, FALSE)
    /\ UNCHANGED <<standalone, visuals, now, ctxSuspended, loads, restartTimers, isPlaying,
                   playbackEnded, cursorRaf, playsResuming, playsAwaiting>>

\* the player of a position is destroyed and the field set to null while a
\* load is awaited; the source field keeps its value, which is read only
\* for the offset of a player
destroyPlayer(v, pos) ==
    IF hasPlayer(v, pos)
    THEN [v EXCEPT !.source[pos] = NoVideo,
                   !.paused[pos] = TRUE,
                   !.time[pos] = 0,
                   !.pendingPlayTimeouts[pos] =
                       IF @.deadline # None THEN [@ EXCEPT !.stale = TRUE] ELSE @]
    ELSE v

\* updateVideoPlayers: trackMediaLoad(() => loadTopVideo(video)), up to the
\* await inside loadVideo
BeginLoadVideo(pos, src) ==
    /\ videoLoads.next < MaxVideoLoads
    /\ videoLoads' = beginLoadVideo(videoLoads, pos, src)
    /\ pendingMediaLoads' = beginMediaLoad(pendingMediaLoads)
    /\ videoManager' = destroyPlayer(ClearIssued(videoManager), pos)
    /\ audioEngine' = ClearStarted(audioEngine)
    /\ lastOp' = Op("loadVideoBegin", 0, FALSE)
    /\ UNCHANGED <<ytPlay, config, canvas, visuals, now, ctxSuspended, loads,
                   restartTimers, isPlaying, playbackEnded, cursorRaf,
                   playsResuming, playsAwaiting>>

\* player.load resolves: loadVideo stores the player, trackMediaLoad's
\* finally runs endMediaLoad
CompleteLoadVideo(req) ==
    /\ req \in videoLoads.pending
    /\ videoLoads' = completeLoadVideo(videoLoads, req)
    /\ pendingMediaLoads' = endMediaLoad(pendingMediaLoads)
    /\ videoManager' = loadVideo(ClearIssued(videoManager), req.pos, req.src)
    /\ audioEngine' = ClearStarted(audioEngine)
    /\ lastOp' = Op("loadVideoDone", 0, FALSE)
    /\ UNCHANGED <<ytPlay, config, canvas, visuals, now, ctxSuspended, loads,
                   restartTimers, isPlaying, playbackEnded, cursorRaf,
                   playsResuming, playsAwaiting>>

\* player.load rejects: loadVideo throws, trackMediaLoad's finally runs
\* endMediaLoad
FailLoadVideo(req) ==
    /\ req \in videoLoads.pending
    /\ videoLoads' = failLoadVideo(videoLoads, req)
    /\ pendingMediaLoads' = endMediaLoad(pendingMediaLoads)
    /\ videoManager' = ClearIssued(videoManager)
    /\ audioEngine' = ClearStarted(audioEngine)
    /\ lastOp' = Op("loadVideoFailed", 0, FALSE)
    /\ UNCHANGED <<ytPlay, config, canvas, visuals, now, ctxSuspended, loads,
                   restartTimers, isPlaying, playbackEnded, cursorRaf,
                   playsResuming, playsAwaiting>>

\* ------------------------------------------------- loading of audio tracks
\* audioTracks.set(id, entry) or audioTracks.delete(id) without a stop: the
\* source of the entry that leaves the map keeps running
replaceTrack(e, id, entry) ==
    [e EXCEPT !.audioTracks[id] = entry,
              !.orphaned = IF e.audioTracks[id].sourceNode # None
                           THEN @ \cup {id} ELSE @,
              !.residual = @ \cup {<<id, ch>> : ch \in e.audioTracks[id].connected}]

\* loadAudioTrack up to its first await: a fresh entry replaces the one in
\* the map; a load whose entry is no longer in the map is an old load
LoadAudioTrack(id) ==
    /\ loads[id].cur => loads[id].old < MaxOldLoads
    /\ audioEngine' = replaceTrack(ClearStarted(audioEngine), id, FreshTrack)
    /\ loads' = [loads EXCEPT ![id] = [cur |-> TRUE,
                                       old |-> IF @.cur THEN @.old + 1 ELSE @.old]]
    /\ videoManager' = ClearIssued(videoManager)
    /\ lastOp' = Op("load", 0, FALSE)
    /\ UNCHANGED <<standalone, visuals, now, ctxSuspended, restartTimers, isPlaying, playbackEnded,
                   cursorRaf, playsResuming, playsAwaiting>>

\* decodeAudioData resolves for the entry in the map
LoadCompletes(id) ==
    /\ loads[id].cur
    /\ loads' = [loads EXCEPT ![id].cur = FALSE]
    /\ audioEngine' = [audioEngine EXCEPT !.audioTracks[id].buffer = TrackDuration[id]]
    /\ UNCHANGED <<standalone, visuals, now, ctxSuspended, restartTimers, videoManager, isPlaying,
                   playbackEnded, cursorRaf, playsResuming, playsAwaiting, lastOp>>

\* fetch or decode fails: audioTracks.delete(id)
LoadFails(id) ==
    /\ loads[id].cur
    /\ loads' = [loads EXCEPT ![id].cur = FALSE]
    /\ audioEngine' = replaceTrack(audioEngine, id, NoTrack)
    /\ UNCHANGED <<standalone, visuals, now, ctxSuspended, restartTimers, videoManager, isPlaying,
                   playbackEnded, cursorRaf, playsResuming, playsAwaiting, lastOp>>

\* an old load resolves: it fills an entry that is not in the map
OldLoadCompletes(id) ==
    /\ loads[id].old > 0
    /\ loads' = [loads EXCEPT ![id].old = @ - 1]
    /\ lastOp' = Op("oldLoadDone", 0, FALSE)
    /\ UNCHANGED <<standalone, visuals, now, ctxSuspended, audioEngine, restartTimers, videoManager,
                   isPlaying, playbackEnded, cursorRaf, playsResuming,
                   playsAwaiting>>

\* an old load fails: audioTracks.delete(id) removes the entry in the map,
\* and a load in flight for that entry becomes an old load
OldLoadFails(id) ==
    /\ loads[id].old > 0
    /\ loads' = [loads EXCEPT ![id] = [cur |-> FALSE,
                                       old |-> IF @.cur THEN @.old ELSE @.old - 1]]
    /\ audioEngine' = replaceTrack(audioEngine, id, NoTrack)
    /\ UNCHANGED <<standalone, visuals, now, ctxSuspended, restartTimers, videoManager, isPlaying,
                   playbackEnded, cursorRaf, playsResuming, playsAwaiting, lastOp>>

unloadAudioTrack(e, id) ==
    IF e.audioTracks[id].present
    THEN [stopAudioTrack(e, id)
             EXCEPT !.audioTracks[id] = NoTrack,
                    !.residual = @ \cup {<<id, ch>> : ch \in e.audioTracks[id].connected}]
    ELSE e

UnloadAudioTrack(id) ==
    /\ audioEngine.audioTracks[id].present
    /\ loads[id].cur => loads[id].old < MaxOldLoads
    /\ audioEngine' = unloadAudioTrack(ClearStarted(audioEngine), id)
    /\ loads' = [loads EXCEPT ![id] = [cur |-> FALSE,
                                       old |-> IF @.cur THEN @.old + 1 ELSE @.old]]
    /\ videoManager' = ClearIssued(videoManager)
    /\ lastOp' = Op("unload", 0, FALSE)
    /\ UNCHANGED <<standalone, visuals, now, ctxSuspended, restartTimers, isPlaying, playbackEnded,
                   cursorRaf, playsResuming, playsAwaiting>>

\* ------------------------------------------------------------ environment
\* a player reports another time (a decoder glitch, the embedded player's
\* own controls)
VideoJumps(pos, time) ==
    /\ hasPlayer(videoManager, pos)
    /\ videoManager.time[pos] # time
    /\ videoManager' = [videoManager EXCEPT !.time[pos] = time]
    /\ UNCHANGED <<standalone, visuals, now, ctxSuspended, audioEngine, loads, restartTimers,
                   isPlaying, playbackEnded, cursorRaf, playsResuming,
                   playsAwaiting, lastOp>>

\* a playing player stops by itself (rebuffering)
VideoStalls(pos) ==
    /\ hasPlayer(videoManager, pos)
    /\ ~videoManager.paused[pos]
    /\ videoManager' = [videoManager EXCEPT !.paused[pos] = TRUE]
    /\ UNCHANGED <<standalone, visuals, now, ctxSuspended, audioEngine, loads, restartTimers,
                   isPlaying, playbackEnded, cursorRaf, playsResuming,
                   playsAwaiting, lastOp>>

\* 10 ms pass; a playing player advances with the wall clock
Tick ==
    /\ now < MaxNow
    /\ now' = now + 1
    /\ videoManager' =
          [videoManager EXCEPT !.time =
              [p \in Positions |->
                  IF hasPlayer(videoManager, p) /\ ~videoManager.paused[p]
                  THEN Min(videoManager.time[p] + 1, VideoLength)
                  ELSE videoManager.time[p]]]
    /\ UNCHANGED <<standalone, visuals, ctxSuspended, audioEngine, loads, restartTimers, isPlaying,
                   playbackEnded, cursorRaf, playsResuming, playsAwaiting, lastOp>>

\* ensureTrackBuffer: load through the engine unless the buffer is there
ensureTrackBuffer(id) ==
    /\ audioEngine.audioTracks[id].buffer = 0
    /\ LoadAudioTrack(id)

\* what the user and the platform can do to the engine and the app
PlaybackStep(seeks, endpoints) ==
    \/ TogglePlayRefused
    \/ TogglePlay
    \/ PlayResumed
    \/ TogglePause
    \/ \E timeSec \in seeks : SeekTo(timeSec)
    \/ RestartPlayback
    \/ \E left \in endpoints, right \in endpoints :
          applyRoutingFromSelectors(left, right)
    \/ CursorTick
    \/ Tick

TrackStep(ids) ==
    \/ \E id \in ids : LoadAudioTrack(id)
    \/ \E id \in ids : LoadCompletes(id)
    \/ \E id \in ids : LoadFails(id)
    \/ \E id \in ids : OldLoadCompletes(id)
    \/ \E id \in ids : OldLoadFails(id)
    \/ \E id \in ids : UnloadAudioTrack(id)

\* the tab's default videos: the direct element on top, which the user
\* reloads and unloads, and the embedded player at the bottom, loaded once
DefaultVideo == [p \in Positions |-> IF p = "top" THEN "mp4" ELSE "yt"]
JumpTime == [v \in VideoIds |-> IF v = "mp4" THEN 6 ELSE 102]

VideoStep ==
    \/ PlayStarted
    \/ PlayFailed
    \/ \E pos \in Positions : DeferredPlayFires(pos)
    \/ LoadVideo("top", DefaultVideo["top"])
    \/ ~hasPlayer(videoManager, "bottom") /\ LoadVideo("bottom", DefaultVideo["bottom"])
    \/ UnloadVideo("top")
    \/ \E pos \in Positions : VideoJumps(pos, JumpTime[DefaultVideo[pos]])
    \/ VideoStalls("top")

\* A tab with two audio tracks and no video; each track is loaded once.
Next ==
    \/ PlaybackStep(SeekTimes, Endpoints)
    \/ \E id \in TrackIds : ensureTrackBuffer(id) /\ ~loads[id].cur
    \/ \E id \in TrackIds : LoadCompletes(id)

Spec == Init /\ [][Next]_vars

\* The tab once loadTab has loaded the audio track "a" and routed it to
\* both channels, in a browser that lets the AudioContext start running;
\* the videos load afterwards.
InitTabLoaded ==
    /\ now = 0
    /\ ctxSuspended = FALSE
    /\ audioEngine =
          ClearStarted(setRouting(
             [InitEngine EXCEPT !.audioTracks["a"] =
                 [FreshTrack EXCEPT !.buffer = TrackDuration["a"]]],
             [left |-> AudioSource("a"), right |-> AudioSource("a")], 0))
    /\ loads = [id \in TrackIds |-> [cur |-> FALSE, old |-> 0]]
    /\ restartTimers = <<>>
    /\ videoManager = InitVideo
    /\ isPlaying = FALSE
    /\ playbackEnded = FALSE
    /\ cursorRaf = FALSE
    /\ playsResuming = 0
    /\ playsAwaiting = [ok |-> 0, fail |-> 0]
    /\ lastOp = Op("init", 0, FALSE)
    /\ visuals = NoVisuals
    /\ InitStandalone

NextVideo ==
    \/ TogglePlay
    \/ TogglePause
    \/ SeekTo(2)
    \/ RestartPlayback
    \/ CursorTick
    \/ Tick
    \/ VideoStep

SpecVideo == InitTabLoaded /\ [][NextVideo]_vars

\* The tab while the user picks videos and plays: loads of videos overlap
\* each other and the play and pause clicks.  The master time stays at 0,
\* where the direct element's start is deferred and no play is rejected.
NextMedia ==
    \/ \E pos \in Positions, src \in VideoIds : BeginLoadVideo(pos, src)
    \/ \E req \in videoLoads.pending : CompleteLoadVideo(req)
    \/ \E req \in videoLoads.pending : FailLoadVideo(req)
    \/ TogglePlayIgnored
    \/ TogglePlay
    \/ TogglePause
    \/ PlayStarted

SpecMedia == InitTabLoaded /\ [][NextMedia]_vars

\* The end of the media.  The engine of this version has no end detection
\* (renderer.ts registers onPlaybackEndedCallback on it), so the engine's
\* part follows the specification's onEnded: pause and seek to zero, then
\* report Ended to the subscriber.
onEnded(e, t) ==
    /\ e.masterClock.isPlaying
    /\ getMasterAudioDuration(e) # None
    /\ getMasterClock(e, t).currentTime >= getMasterAudioDuration(e)

engineOnEnded(e, t) == engineSeekAll(enginePauseAll(e, t), 0, t)

\* handlePlaybackEnded, called with the report
handlePlaybackEnded(e, v) ==
    /\ isPlaying' = FALSE
    /\ playbackEnded' = TRUE
    /\ audioEngine' = seekToEngine(e, 0)
    /\ restartTimers' = seekToTimers(e, restartTimers)
    /\ videoManager' = seekToVideo(videoPauseAll(v), 0)
    /\ visuals' = seekToVisuals(visuals, 0, e)

PlaybackEnded ==
    /\ onEnded(audioEngine, now)
    /\ handlePlaybackEnded(engineOnEnded(ClearStarted(audioEngine), now),
                           ClearIssued(videoManager))
    /\ lastOp' = Op("ended", 0, TRUE)
    /\ UNCHANGED <<standalone, now, ctxSuspended, loads, cursorRaf, playsResuming,
                   playsAwaiting>>

\* The loaded tab with its two videos, played to the end of track "a".
NextEnd ==
    \/ TogglePlay
    \/ TogglePause
    \/ SeekTo(2)
    \/ RestartPlayback
    \/ CursorTick
    \/ Tick
    \/ PlayStarted
    \/ PlayFailed
    \/ \E pos \in Positions : DeferredPlayFires(pos)
    \/ \E pos \in Positions :
          ~hasPlayer(videoManager, pos) /\ LoadVideo(pos, DefaultVideo[pos])
    \/ PlaybackEnded

SpecEnd == InitTabLoaded /\ [][NextEnd]_vars

\* The loaded tab with its two videos and seeks to every time of SeekTimes.
NextSeek ==
    \/ TogglePlay
    \/ TogglePause
    \/ \E timeSec \in SeekTimes : SeekTo(timeSec)
    \/ RestartPlayback
    \/ CursorTick
    \/ Tick
    \/ PlayStarted
    \/ PlayFailed
    \/ \E pos \in Positions : DeferredPlayFires(pos)
    \/ \E pos \in Positions :
          ~hasPlayer(videoManager, pos) /\ LoadVideo(pos, DefaultVideo[pos])

SpecSeek == InitTabLoaded /\ [][NextSeek]_vars

\* window resize: the container gets another width and every strip is
\* positioned for the current time, or for 0 when the app is not playing
Resize(width) ==
    /\ visuals.trackWidth > 0
    /\ width # visuals.clientWidth
    /\ visuals' = updateAllVisualsPosition(
                     [visuals EXCEPT !.clientWidth = width],
                     IF isPlaying THEN Read ELSE 0, audioEngine)
    /\ audioEngine' = ClearStarted(audioEngine)
    /\ videoManager' = ClearIssued(videoManager)
    /\ lastOp' = Op("resize", IF isPlaying THEN Read ELSE 0,
                    audioEngine.masterClock.isPlaying)
    /\ UNCHANGED <<standalone, now, ctxSuspended, loads, restartTimers, isPlaying,
                   playbackEnded, cursorRaf, playsResuming, playsAwaiting>>

\* The tab with both tracks decoded, no routing yet, and one track's strip
\* showing its image: updateTrackVisuals has put it at the neutral position.
ViewportWidths == {6, 9}
TrackWidths == {8, 12}
StripSeekTimes == {2, 9}

InitStrip ==
    /\ now = 0
    /\ ctxSuspended = FALSE
    /\ audioEngine =
          [InitEngine EXCEPT !.audioTracks =
              [id \in TrackIds |-> [FreshTrack EXCEPT !.buffer = TrackDuration[id]]]]
    /\ loads = [id \in TrackIds |-> [cur |-> FALSE, old |-> 0]]
    /\ restartTimers = <<>>
    /\ videoManager = InitVideo
    /\ isPlaying = FALSE
    /\ playbackEnded = FALSE
    /\ cursorRaf = FALSE
    /\ playsResuming = 0
    /\ playsAwaiting = [ok |-> 0, fail |-> 0]
    /\ lastOp = Op("init", 0, FALSE)
    /\ \E w \in TrackWidths :
          visuals = [clientWidth |-> 6, trackWidth |-> w, tx |-> centerOf(6)]
    /\ InitStandalone

NextStrip ==
    \/ TogglePlay
    \/ TogglePlayRefused
    \/ TogglePause
    \/ \E timeSec \in StripSeekTimes : SeekTo(timeSec)
    \/ RestartPlayback
    \/ CursorTick
    \/ Tick
    \/ \E src \in Endpoints : applyRoutingFromSelectors(src, src)
    \/ \E width \in ViewportWidths : Resize(width)

SpecStrip == InitStrip /\ [][NextStrip]_vars

\* setTrackVolume called with any id and any volume
SetTrackVolume(id, volume) ==
    /\ audioEngine' = setTrackVolume(ClearStarted(audioEngine), id, volume)
    /\ videoManager' = ClearIssued(videoManager)
    /\ lastOp' = [name |-> "setTrackVolume", t |-> volume, wasPlaying |-> FALSE,
                  resumed |-> FALSE, id |-> id]
    /\ UNCHANGED <<standalone, visuals, now, ctxSuspended, loads, restartTimers, isPlaying,
                   playbackEnded, cursorRaf, playsResuming, playsAwaiting>>

\* The engine's tracks loaded and unloaded, and their volumes set: ids of
\* the tab and one it does not have, volumes below 0, inside and above 1.
GainIds == TrackIds \cup {"unknown"}
Volumes == {0 - Sub, 0 - 1, 0, Sub \div 2, Sub, Sub + 1, 3 * Sub}

NextGain ==
    \/ \E id \in TrackIds : ensureTrackBuffer(id) /\ ~loads[id].cur
    \/ \E id \in TrackIds : LoadCompletes(id)
    \/ \E id \in TrackIds : LoadFails(id)
    \/ \E id \in TrackIds : UnloadAudioTrack(id)
    \/ \E id \in GainIds, volume \in Volumes : SetTrackVolume(id, volume)

SpecGain == Init /\ [][NextGain]_vars

\* the operations of the playback core, which a player on its own leaves
playback == <<now, ctxSuspended, audioEngine, loads, restartTimers,
              videoManager, isPlaying, playbackEnded, cursorRaf,
              playsResuming, playsAwaiting, lastOp, visuals>>

\* onReady: the embedded player object exists
YtReady ==
    /\ ~ytPlay.player
    /\ ytPlay' = [ytPlay EXCEPT !.player = TRUE, !.state = "CUED"]
    /\ UNCHANGED <<playback, mediaLoads, config, canvas>>

\* the embedded player changes its state on its own
YtStateChange(state) ==
    /\ ytPlay.player
    /\ state # ytPlay.state
    /\ ytPlay' = [ytPlay EXCEPT !.state = state]
    /\ UNCHANGED <<playback, mediaLoads, config, canvas>>

YtPlay ==
    /\ ytPlay.call = "none"
    /\ ytPlay.clock <= MaxCallTime
    /\ ytPlay' = play(ytPlay)
    /\ UNCHANGED <<playback, mediaLoads, config, canvas>>

YtPlayTimeout ==
    /\ ytPlay.timeout # None
    /\ ytPlay.timeout <= ytPlay.clock
    /\ ytPlay' = onPlayTimeout(ytPlay)
    /\ UNCHANGED <<playback, mediaLoads, config, canvas>>

YtCheckPlaying ==
    /\ ytPlay.poll # None
    /\ ytPlay.poll <= ytPlay.clock
    /\ ytPlay' = checkPlaying(ytPlay)
    /\ UNCHANGED <<playback, mediaLoads, config, canvas>>

\* time passes; a timer that is due fires before the clock moves on
YtTick ==
    /\ ytPlay.clock < MaxClock
    /\ ytPlay.timeout # None => ytPlay.timeout > ytPlay.clock
    /\ ytPlay.poll # None => ytPlay.poll > ytPlay.clock
    /\ ytPlay' = [ytPlay EXCEPT !.clock = @ + 1]
    /\ UNCHANGED <<playback, mediaLoads, config, canvas>>

NextYt ==
    \/ YtReady
    \/ \E state \in PlayerStates : YtStateChange(state)
    \/ YtPlay
    \/ YtPlayTimeout
    \/ YtCheckPlaying
    \/ YtTick

SpecYt == Init /\ [][NextYt]_vars

\* loadPieceConfig up to JSON.parse: the text fetched and stripped
LoadPieceConfig(text) ==
    /\ config = NoConfig
    /\ config' = [text |-> text, json |-> stripJsonComments(text)]
    /\ UNCHANGED <<playback, mediaLoads, ytPlay, canvas>>

\* the piece's config is loaded once
NextConfig ==
    \E text \in (IF config = NoConfig THEN Texts ELSE {}) : LoadPieceConfig(text)

SpecConfig == Init /\ [][NextConfig]_vars

\* renderWaveformPng(buffer, width, height) up to its column loop
RenderWaveform(length, width) ==
    /\ canvas = NoCanvas
    /\ canvas' = [NoCanvas EXCEPT !.kind = "waveform", !.width = width,
                                  !.length = length]
    /\ UNCHANGED <<playback, mediaLoads, ytPlay, config>>

\* one pass of `for (let x = 0; x < width; x++)`
WaveformColumn ==
    /\ canvas.kind = "waveform"
    /\ canvas.next < canvas.width
    /\ canvas' = [canvas EXCEPT
                     !.next = @ + 1,
                     !.cols = Append(@, columnSlice(canvas.next, canvas.length,
                                                    canvas.width))]
    /\ UNCHANGED <<playback, mediaLoads, ytPlay, config>>

\* renderSpectrogramPng(buffer, width, height) up to the row loop of a column
RenderSpectrogram(height) ==
    /\ canvas = NoCanvas
    /\ canvas' = [NoCanvas EXCEPT !.kind = "spectrogram", !.height = height]
    /\ UNCHANGED <<playback, mediaLoads, ytPlay, config>>

\* one pass of `for (let yCanvas = 0; yCanvas < height; yCanvas++)`
SpectrogramRow ==
    /\ canvas.kind = "spectrogram"
    /\ canvas.next < canvas.height
    /\ canvas' = [canvas EXCEPT
                     !.next = @ + 1,
                     !.rows = Append(@, binIndex(canvas.next, canvas.height))]
    /\ UNCHANGED <<playback, mediaLoads, ytPlay, config>>

\* the buffers and canvases rendered: every small one, the clip at the
\* strip's width, and the spectrogram at the strip's height
Renders ==
    {<<length, width>> : length \in 1..MaxLength, width \in 1..MaxWidth}
       \cup {<<ClipLength, WaveformWidth>>}
Heights == (2..MaxHeight) \cup {SpectrogramHeight}

NextRender ==
    \/ \E r \in (IF canvas = NoCanvas
                  THEN {q \in Renders : q[1] >= q[2]} ELSE {}) :
          RenderWaveform(r[1], r[2])
    \/ WaveformColumn
    \/ \E height \in (IF canvas = NoCanvas THEN Heights ELSE {}) :
          RenderSpectrogram(height)
    \/ SpectrogramRow

SpecRender == Init /\ [][NextRender]_vars

\* The engine with the track "a" loaded, reloaded and unloaded at any time.
NextLoad ==
    \/ TrackStep({"a"})
    \/ PlaybackStep({2}, {NullSource, AudioSource("a")})

SpecLoad == Init /\ [][NextLoad]_vars

\* loadSelectedGroupAudioTracks: the tracks of the selected group are loaded
\* one after the other, each load awaited in a try/catch.  Group is the
\* order of the group's tracks.
Group == <<"a", "b">>

\* a loop that an error leaves
nextGroupTrackStopOnError(id, ok) ==
    IF ok /\ \E i \in 1..(Len(Group) - 1) : Group[i] = id
    THEN Group[(CHOOSE i \in 1..(Len(Group) - 1) : Group[i] = id) + 1]
    ELSE ""

\* the track that the loop loads once the load of id has settled, "" at the
\* end of the group
nextGroupTrack(id, ok) ==
    IF \E i \in 1..(Len(Group) - 1) : Group[i] = id
    THEN Group[(CHOOSE i \in 1..(Len(Group) - 1) : Group[i] = id) + 1]
    ELSE ""

GroupLoadBegin ==
    /\ \A id \in TrackIds : ~loads[id].cur
    /\ LoadAudioTrack(Group[1])

\* the awaited load of id resolves (ok) or rejects: loadAudioTrack stores the
\* buffer, or deletes the entry and rethrows; the loop logs the error and
\* calls loadAudioTrack for the next track
GroupLoadSettles(id, ok) ==
    /\ loads[id].cur
    /\ LET next == nextGroupTrack(id, ok)
           e1 == IF ok
                 THEN [audioEngine EXCEPT !.audioTracks[id].buffer = TrackDuration[id]]
                 ELSE replaceTrack(audioEngine, id, NoTrack)
       IN /\ audioEngine' = IF next # ""
                            THEN replaceTrack(ClearStarted(e1), next, FreshTrack)
                            ELSE ClearStarted(e1)
          /\ loads' = [x \in TrackIds |->
                          IF x = id THEN [loads[x] EXCEPT !.cur = FALSE]
                          ELSE IF x = next THEN [loads[x] EXCEPT !.cur = TRUE]
                          ELSE loads[x]]
    /\ videoManager' = ClearIssued(videoManager)
    /\ lastOp' = Op(IF ok THEN "loadDone" ELSE "loadFailed", 0, FALSE)
    /\ UNCHANGED <<standalone, visuals, now, ctxSuspended, restartTimers, isPlaying, playbackEnded,
                   cursorRaf, playsResuming, playsAwaiting>>

\* every value of the channel selectors
AllEndpoints == Endpoints \cup {VideoEndpoint(pos) : pos \in Positions}

\* A tab whose group of two tracks is loaded by the group loader while the
\* user sets the channel selectors and presses play.
NextGroup ==
    \/ GroupLoadBegin
    \/ \E id \in TrackIds, ok \in BOOLEAN : GroupLoadSettles(id, ok)
    \/ \E left \in AllEndpoints, right \in AllEndpoints :
          applyRoutingFromSelectors(left, right)
    \/ TogglePlayRefused

SpecGroup == Init /\ [][NextGroup]_vars

\* ------------------------------------------------------------- properties
NoMasterDuration(e) ==
    getMasterAudioDuration(e) = None \/ getMasterAudioDuration(e) <= 0

Issued(v, pos, c) == {i \in 1..Len(v.issued[pos]) : v.issued[pos][i].c = c}

\* the loaded tracks that a routing references
RoutedTracks(e) ==
    {id \in selectedIds(e.currentRouting) \cap TrackIds :
        e.audioTracks[id].present /\ e.audioTracks[id].buffer # 0}

\* a step in which playback may be started: the user's play, its
\* continuation after resume(), the restart that seekAll schedules
PlayRequest == TogglePlayRefused \/ TogglePlay \/ PlayResumed \/ RestartPlayback

\* C1: a play request made while no routed audio track has a known positive
\* duration leaves the clock and the app stopped, starts no audio track and
\* asks no video player to play, on the user's path and on the restart of
\* a seek.
C1_PlayRefusedWithoutDuration ==
    [][(PlayRequest /\ NoMasterDuration(audioEngine)
                    /\ ~audioEngine.masterClock.isPlaying)
         => /\ ~audioEngine'.masterClock.isPlaying
            /\ ~isPlaying'
            /\ audioEngine'.started = {}
            /\ \A pos \in Positions : Issued(videoManager', pos, "play") = {}]_vars

\* the last seek before every play in issued[pos] is a seek to target, and
\* there is such a seek
SoughtBeforePlay(v, pos, target) ==
    LET q == v.issued[pos]
        seeks == Issued(v, pos, "seek")
    IN /\ \E i \in seeks : q[i].t = target
       /\ \A j \in Issued(v, pos, "play") :
             \E i \in seeks :
                /\ i < j /\ q[i].t = target
                /\ \A k \in seeks : k < j => k <= i

\* playback runs from master time m: the clock, the routed tracks, and
\* every loaded video sought to max(0, m + offset) before it plays
StartedAt(m) ==
    /\ lastOp'.name = "play"
    /\ audioEngine'.masterClock.isPlaying
    /\ getMasterClock(audioEngine', now').currentTime = m
    /\ \A id \in RoutedTracks(audioEngine') :
          audioEngine'.audioTracks[id].sourceNode = m
    /\ \A pos \in Positions :
          hasPlayer(videoManager', pos) =>
             SoughtBeforePlay(videoManager', pos,
                              Max(0, m + getOffsetFor(videoManager', pos)))

\* C2 as stated: a play that directly follows a pause starts at the time
\* the pause froze, for every frozen time.
C2_ResumeFromPausedPosition ==
    [][(lastOp.name = "pause" /\ TogglePlay) => StartedAt(lastOp.t)]_vars

\* C2, amended: a play that directly follows a pause starts the clock, the
\* routed tracks and the videos at the time the pause froze, when that time
\* is more than 0.01 s before the master duration.
C2_ResumeBeforeEnd ==
    [][(/\ lastOp.name = "pause"
        /\ TogglePlay
        /\ lastOp.t < getMasterAudioDuration(audioEngine) - EndMargin)
         => StartedAt(lastOp.t)]_vars

C2_Witness ==
    /\ lastOp.name = "play" /\ lastOp.resumed /\ lastOp.t > 0
    /\ audioEngine.audioTracks["a"].sourceNode = lastOp.t
    /\ \A pos \in Positions :
          /\ hasPlayer(videoManager, pos)
          /\ Issued(videoManager, pos, "seek") # {}
    /\ \E pos \in Positions : Issued(videoManager, pos, "play") # {}

EngineFields(e) ==
    <<e.audioTracks, e.currentRouting, e.masterClock,
      e.playStartContextTime, e.playStartOffset>>

C4_SeekWhilePlayingRestartsAtTarget ==
    [][(lastOp.name = "seek" /\ lastOp.wasPlaying /\ RestartPlayback)
         => LET t == Max(0, lastOp.t)
                e == audioEngine'
            IN /\ e.masterClock.isPlaying
               /\ e.playStartOffset = t
               /\ getMasterClock(e, now').currentTime = t
               /\ \A id \in RoutedTracks(e) : e.audioTracks[id].sourceNode = t]_vars

\* C5: after seek(t) while the clock is stopped, currentTime is max(0, t),
\* the clock is still stopped, no track was started and a read returns
\* max(0, t), however much time passes.
C5_SeekWhileStopped ==
    (lastOp.name = "seek" /\ ~lastOp.wasPlaying)
      => /\ audioEngine.masterClock.currentTime = Max(0, lastOp.t)
         /\ ~audioEngine.masterClock.isPlaying
         /\ audioEngine.started = {}
         /\ \A id \in TrackIds : audioEngine.audioTracks[id].sourceNode = None
         /\ Read = Max(0, lastOp.t)

C5_Witness ==
    /\ lastOp.name = "seek" /\ ~lastOp.wasPlaying /\ lastOp.t < 0
    /\ audioEngine.masterClock.currentTime = 0
    /\ audioEngine.audioTracks["a"].buffer # 0
    /\ now > 0

\* C6: a poll of the clock returns referenceOffset + (now - referenceRealTime)
\* while playing and the frozen currentTime while stopped, and changes
\* nothing in the engine.
C6_ReadIsComputed ==
    [][CursorTick
         => /\ lastOp'.t =
                 IF audioEngine.masterClock.isPlaying
                 THEN audioEngine.playStartOffset
                        + (now - audioEngine.playStartContextTime)
                 ELSE audioEngine.masterClock.currentTime
            /\ EngineFields(audioEngine') = EngineFields(audioEngine)]_vars

C6_Witness ==
    /\ lastOp.name = "tick" /\ lastOp.wasPlaying
    /\ lastOp.t > audioEngine.playStartOffset
    /\ lastOp.t > audioEngine.masterClock.currentTime
    /\ audioEngine.playStartOffset > 0

\* togglePlayPause rewinds to 0 before it plays
Rewinds ==
    \/ playbackEnded
    \/ Read >= getMasterAudioDuration(audioEngine) - EndMargin

\* C7: over a step that leaves the clock playing and issues no seek or
\* pause, the master time does not decrease.
C7_MonotonicWhilePlaying ==
    [][(/\ audioEngine.masterClock.isPlaying
        /\ audioEngine'.masterClock.isPlaying
        /\ ~(TogglePlay /\ Rewinds))
         => getMasterClock(audioEngine', now').currentTime >= Read]_vars

\* the threshold that the claim gives for each kind of player
DriftThreshold(kind) ==
    IF kind = "mp4" THEN nativeSyncThresholdSeconds ELSE youtubeSyncThresholdSeconds

C9_PauseAllIsFinal ==
    ~videoManager.playRequested
      => \A pos \in Positions :
            /\ videoManager.pendingPlayTimeouts[pos].deadline = None
            /\ hasPlayer(videoManager, pos) => videoManager.paused[pos]
            /\ Issued(videoManager, pos, "play") = {}

C9_Witness ==
    /\ lastOp.name = "pause"
    /\ now > 0
    /\ \A pos \in Positions :
          /\ hasPlayer(videoManager, pos)
          /\ Issued(videoManager, pos, "pause") # {}

\* C10: after a seek, no position whose player was sought still has a
\* deferred-play timer pending.
C10_SeekCancelsPendingTimer ==
    lastOp.name = "seek"
      => \A pos \in Positions :
            Issued(videoManager, pos, "seek") # {}
               => videoManager.pendingPlayTimeouts[pos].deadline = None

FetchesInFlight(l, id) == (IF l[id].cur THEN 1 ELSE 0) + l[id].old

\* C12: a load of an id that has a load in flight starts no further fetch.
C12_LoadIsDeduplicated ==
    [][\A id \in TrackIds :
          (LoadAudioTrack(id) /\ FetchesInFlight(loads, id) > 0)
            => FetchesInFlight(loads', id) = FetchesInFlight(loads, id)]_vars

\* C13: no track id has a running source outside the engine's map.
C13_NoOrphanedSource ==
    audioEngine.orphaned = {}

\* the state in which the end of the media leaves the system
EndedState ==
    /\ ~isPlaying
    /\ ~audioEngine.masterClock.isPlaying
    /\ Read = 0
    /\ \A id \in TrackIds : audioEngine.audioTracks[id].sourceNode = None
    /\ \A pos \in Positions :
          /\ hasPlayer(videoManager, pos) => videoManager.paused[pos]
          /\ videoManager.pendingPlayTimeouts[pos].deadline = None

\* a step that no user action causes
AutomaticStep ==
    \/ RestartPlayback
    \/ PlayStarted
    \/ PlayFailed
    \/ \E pos \in Positions : DeferredPlayFires(pos)
    \/ CursorTick
    \/ Tick

\* C14: the end of the media leaves the app and the clock stopped at master
\* time 0 with every video paused and no deferred timer pending; from there
\* no step other than a user action changes any of this, and the next play
\* starts from 0.
C14_EndOfMedia ==
    [][/\ PlaybackEnded => (EndedState' /\ playbackEnded')
       /\ (playbackEnded /\ EndedState /\ AutomaticStep) => EndedState'
       /\ (playbackEnded /\ TogglePlay /\ lastOp'.name = "play") => lastOp'.t = 0]_vars

\* C15: a play starts every loaded player whose desired time is not
\* negative, whatever the outcome at the other position; when the play of
\* one player then fails, the engine is left as it is and the frame loop
\* goes on synchronizing: it is scheduled and the app is playing.
C15_VideoFailureIsolated ==
    [][/\ ((TogglePlay \/ PlayResumed) /\ lastOp'.name = "play")
            => \A pos \in Positions :
                  (/\ hasPlayer(videoManager', pos)
                   /\ lastOp'.t + getOffsetFor(videoManager', pos) >= 0)
                    => Issued(videoManager', pos, "play") # {}
       /\ PlayFailed
            => /\ EngineFields(audioEngine') = EngineFields(audioEngine)
               /\ cursorRaf'
               /\ isPlaying']_vars

\* the index of the last seek in issued[pos], 0 if there is none
LastSeek(v, pos) ==
    LET seeks == Issued(v, pos, "seek")
    IN IF seeks = {} THEN 0 ELSE CHOOSE i \in seeks : \A j \in seeks : j <= i

RoutedDurations(e) ==
    {e.audioTracks[id].buffer :
       id \in {x \in TrackIds :
                 /\ \/ e.currentRouting.left = AudioSource(x)
                    \/ e.currentRouting.right = AudioSource(x)
                 /\ e.audioTracks[x].present
                 /\ e.audioTracks[x].buffer # 0}}

\* C17: getMasterAudioDuration is the largest duration among the loaded
\* tracks that the left and right endpoints name as audio sources, and null
\* when there is none; video endpoints and other tracks do not count.
C17_MasterDuration ==
    LET d == getMasterAudioDuration(audioEngine)
        durations == RoutedDurations(audioEngine)
    IN IF durations = {}
       THEN d = None
       ELSE d \in durations /\ \A x \in durations : x <= d

\* a video endpoint on the left, the shorter track on the right, the longer
\* track loaded and unrouted
C17_Witness ==
    /\ audioEngine.currentRouting.left.type = "video"
    /\ audioEngine.currentRouting.right = AudioSource("a")
    /\ audioEngine.audioTracks["a"].buffer # 0
    /\ audioEngine.audioTracks["b"].buffer > audioEngine.audioTracks["a"].buffer
    /\ getMasterAudioDuration(audioEngine) = TrackDuration["a"]

\* C18: when the load of a track fails, the caller sees the failure, the
\* track is absent from the engine, no further fetch of it is started, and
\* the group loader goes on to load the next track of the group.
C18_FailedLoad ==
    [][\A id \in TrackIds :
          GroupLoadSettles(id, FALSE)
            => /\ lastOp'.name = "loadFailed"
               /\ ~audioEngine'.audioTracks[id].present
               /\ audioEngine'.audioTracks[id].buffer = 0
               /\ FetchesInFlight(loads', id) = FetchesInFlight(loads, id) - 1
               /\ \A i \in 1..(Len(Group) - 1) :
                     Group[i] = id
                       => /\ loads'[Group[i + 1]].cur
                          /\ audioEngine'.audioTracks[Group[i + 1]].present]_vars

C18_Witness ==
    /\ lastOp.name = "loadFailed"
    /\ ~audioEngine.audioTracks["a"].present
    /\ loads["b"].cur
    /\ audioEngine.audioTracks["b"].present

C20_SyncResume ==
    [][(CursorTick /\ isPlaying)
         => \A pos \in Positions :
               LET v == videoManager
                   m == Read
               IN hasPlayer(v, pos) =>
                     (Issued(videoManager', pos, "play") # {} <=>
                         /\ v.playRequested
                         /\ v.paused[pos]
                         /\ v.pendingPlayTimeouts[pos].deadline = None
                         /\ m + getOffsetFor(v, pos) >= 0)]_vars

\* The positions with a connected video source: the map videoSources is
\* filled only by connectVideoSource, which the application never calls.
videoSources == {}

\* C21: in every state, a channel endpoint that names an audio track
\* names a track that is in the engine's map, and one that names a video
\* position names a position with a connected video source.
C21_RoutingEndpointsValid ==
    \A ch \in {"left", "right"} :
       LET src == audioEngine.currentRouting[ch]
       IN /\ src.type = "audio" => audioEngine.audioTracks[src.id].present
          /\ src.type = "video" => src.position \in videoSources

\* the times at which the strip's mapping is examined, in ticks
StripTimes == (0 - 2) .. 10

\* the operations that position the strip, at the time Max(0, lastOp.t)
Positioned == lastOp.name \in {"seek", "tick", "resize"}

\* C22: with a known positive master duration D, for every time t in
\* 0..D and for the translation the strip was last given, mapping the time
\* to a translation, the translation back to a time and that time to a
\* translation again gives the first translation to within less than one
\* pixel.
C22_PixelTimeRoundTrip ==
    LET D == getMasterAudioDuration(audioEngine)
        V == visuals.clientWidth
        W == visuals.trackWidth
        back(px) == positionPx(inversePositionPx(px, D, V, W), D, V, W)
    IN (W > 0 /\ D # None /\ D > 0)
         => /\ \A t \in 0 .. D :
                  Abs(back(positionPx(t * Sub, D, V, W))
                        - positionPx(t * Sub, D, V, W)) < Sub
            /\ Positioned => Abs(back(visuals.tx) - visuals.tx) < Sub

\* a strip positioned by a seek strictly inside the track
C22_Witness ==
    LET D == getMasterAudioDuration(audioEngine)
    IN /\ visuals.trackWidth > 0 /\ D # None
       /\ lastOp.name = "seek" /\ lastOp.t > 0 /\ lastOp.t < D
       /\ visuals.tx < centerOf(visuals.clientWidth)
       /\ visuals.tx > centerOf(visuals.clientWidth) - visuals.trackWidth * Sub

\* C23: with a known positive master duration D, a viewport of width V and
\* a strip of width W, the translation for every time t, negative and
\* beyond D included, lies in [V/2 - W, V/2], is V/2 at t = 0 and V/2 - W
\* at t = D, and does not increase with t; the strip a seek, a frame tick
\* or a resize has positioned has the translation of its time.
C23_StripPositionBounds ==
    LET D == getMasterAudioDuration(audioEngine)
        V == visuals.clientWidth
        W == visuals.trackWidth
        tx(t) == positionWrapper(visuals, t, D).tx
    IN (W > 0 /\ D # None /\ D > 0)
         => /\ \A t \in StripTimes :
                  /\ tx(t) >= centerOf(V) - W * Sub
                  /\ tx(t) <= centerOf(V)
                  /\ t + 1 \in StripTimes => tx(t + 1) <= tx(t)
            /\ tx(0) = centerOf(V)
            /\ tx(D) = centerOf(V) - W * Sub
            /\ Positioned => visuals.tx = tx(Max(0, lastOp.t))

\* a seek beyond the end of the track leaves the strip's end edge under
\* the center
C23_Witness ==
    LET D == getMasterAudioDuration(audioEngine)
    IN /\ visuals.trackWidth > 0 /\ D # None
       /\ lastOp.name = "seek" /\ lastOp.t > D
       /\ visuals.tx = centerOf(visuals.clientWidth) - visuals.trackWidth * Sub

\* C24: a seek, a frame tick or a resize that positions the strip while
\* the master duration is unavailable leaves the strip at the neutral
\* translation V/2.
C24_NeutralWithoutDuration ==
    [][(/\ \/ \E timeSec \in StripSeekTimes : SeekTo(timeSec)
           \/ CursorTick
           \/ \E width \in ViewportWidths : Resize(width)
        /\ visuals.trackWidth > 0
        /\ NoMasterDuration(audioEngine))
         => visuals'.tx = centerOf(visuals'.clientWidth)]_vars

\* C25: in every state, stopping a track that is unknown or has no running
\* source leaves the engine as it is, stopping a track twice is the same
\* as stopping it once, and a pause now followed by a second pause, now or
\* a tick later, leaves the engine (frozen currentTime, isPlaying = false,
\* every track) exactly as the first pause left it.
C25_StopAndPauseIdempotent ==
    /\ \A id \in TrackIds \cup {"unknown"} :
          LET stopped == stopAudioTrack(audioEngine, id)
          IN /\ stopAudioTrack(stopped, id) = stopped
             /\ (\/ id \notin TrackIds
                 \/ ~audioEngine.audioTracks[id].present
                 \/ audioEngine.audioTracks[id].sourceNode = None)
                  => stopped = audioEngine
    /\ LET paused == enginePauseAll(audioEngine, now)
       IN /\ ~paused.masterClock.isPlaying
          /\ \A t \in {now, now + 1} : enginePauseAll(paused, t) = paused

\* the clock is running with a track playing, some time after the play: a
\* pause here freezes a time that a second pause would move if it used the
\* time base again
C25_Witness ==
    /\ audioEngine.masterClock.isPlaying
    /\ audioEngine.playStartContextTime # None
    /\ \E id \in TrackIds : audioEngine.audioTracks[id].sourceNode # None
    /\ \E id \in TrackIds : ~audioEngine.audioTracks[id].present
    /\ now > audioEngine.playStartContextTime

\* C26: setTrackVolume(id, v) on a track in the map leaves its gain at
\* min(1, max(0, v)) and everything else as it was; on an id that is not in
\* the map it changes nothing; after every step the gain of every track in
\* the map is within [0, 1].
C26_GainIsClamped ==
    [][/\ \A id \in TrackIds :
             audioEngine'.audioTracks[id].present
                => audioEngine'.audioTracks[id].gain \in 0 .. Sub
       /\ \A id \in GainIds, v \in Volumes :
             SetTrackVolume(id, v)
                => IF id \in TrackIds /\ audioEngine.audioTracks[id].present
                   THEN /\ audioEngine'.audioTracks[id].gain = Min(Sub, Max(0, v))
                        /\ [audioEngine' EXCEPT !.audioTracks[id].gain = 0] =
                             [ClearStarted(audioEngine)
                                 EXCEPT !.audioTracks[id].gain = 0]
                   ELSE audioEngine' = ClearStarted(audioEngine)]_vars

\* a volume above 1 was set on one track while the other has a gain
\* strictly inside (0, 1)
C26_Witness ==
    /\ lastOp.name = "setTrackVolume"
    /\ lastOp.t > Sub
    /\ lastOp.id \in TrackIds
    /\ audioEngine.audioTracks[lastOp.id].present
    /\ audioEngine.audioTracks[lastOp.id].gain = Sub
    /\ \E id \in TrackIds :
          /\ audioEngine.audioTracks[id].present
          /\ audioEngine.audioTracks[id].gain \in 1 .. (Sub - 1)

\* C27: a play() called once the player object exists is never rejected;
\* while it is pending no more than 2000 ms have passed since the call;
\* it is resolved no later than 2000 ms after the call; and a checkPlaying
\* that finds the state PLAYING resolves it.
C27_PlayConfirmationBounded ==
    [][LET y == ytPlay'
       IN /\ (ytPlay.player /\ YtPlay) => y.call # "rejected"
          /\ ytPlay.call = "pending" => y.call \in {"pending", "resolved"}
          /\ y.call = "pending" => y.clock - y.start <= PlayTimeout
          /\ y.call = "resolved" => y.settledAt - y.start <= PlayTimeout
          /\ (YtCheckPlaying /\ ytPlay.call = "pending" /\ ytPlay.state = "PLAYING")
                => y.call = "resolved"]_vars

\* a call that the timeout resolved, 2000 ms after it was made, with the
\* player never seen playing
C27_Witness ==
    /\ ytPlay.call = "resolved"
    /\ ytPlay.settledAt - ytPlay.start = PlayTimeout
    /\ ytPlay.state # "PLAYING"
    /\ ytPlay.poll # None

\* What each character of a text is, read from the left: part of a string
\* literal (its quotes and escapes included), part of a comment, the line
\* break that ends a // comment, or plain text.  EndOfString(input, i, q)
\* is the index of the quote that closes the string opened before i, or 0.
RECURSIVE EndOfString(_, _, _)
EndOfString(input, i, q) ==
    IF i > Len(input) THEN 0
    ELSE IF input[i] = "bs" THEN EndOfString(input, i + 2, q)
    ELSE IF input[i] = q THEN i
    ELSE EndOfString(input, i + 1, q)

RECURSIVE EndOfLine(_, _)
EndOfLine(input, i) ==
    IF i > Len(input) THEN 0
    ELSE IF input[i] \in {"nl", "cr"} THEN i
    ELSE EndOfLine(input, i + 1)

RECURSIVE EndOfBlock(_, _)
EndOfBlock(input, i) ==
    IF i + 1 > Len(input) THEN 0
    ELSE IF input[i] = "st" /\ input[i + 1] = "sl" THEN i + 1
    ELSE EndOfBlock(input, i + 1)

Fill(kinds, from, to, kind) ==
    [j \in 1..Len(kinds) |-> IF j >= from /\ j <= to THEN kind ELSE kinds[j]]

RECURSIVE Classify(_, _, _)
Classify(input, i, kinds) ==
    IF i > Len(input) THEN kinds
    ELSE IF input[i] \in {"dq", "sq"}
    THEN LET e == EndOfString(input, i + 1, input[i])
             last == IF e = 0 THEN Len(input) ELSE e
         IN Classify(input, last + 1, Fill(kinds, i, last, "string"))
    ELSE IF input[i] = "sl" /\ charAt(input, i + 1) = "sl"
    THEN LET e == EndOfLine(input, i + 2)
             last == IF e = 0 THEN Len(input) ELSE e - 1
         IN Classify(input, last + 1,
                     IF e = 0 THEN Fill(kinds, i, last, "comment")
                     ELSE Fill(Fill(kinds, i, last, "comment"), e, e, "break"))
    ELSE IF input[i] = "sl" /\ charAt(input, i + 1) = "st"
    THEN LET e == EndOfBlock(input, i + 2)
             last == IF e = 0 THEN Len(input) ELSE e
         IN Classify(input, last + 1, Fill(kinds, i, last, "comment"))
    ELSE Classify(input, i + 1, kinds)

KindsOf(input) == Classify(input, 1, [j \in 1..Len(input) |-> "plain"])

RECURSIVE Kept(_, _, _)
Kept(input, kinds, i) ==
    IF i > Len(input) THEN <<>>
    ELSE IF kinds[i] = "comment" THEN Kept(input, kinds, i + 1)
    ELSE <<input[i]>> \o Kept(input, kinds, i + 1)

\* C28: the text handed to JSON.parse is the fetched text without the
\* characters of its // and /* */ comments: the characters of string
\* literals, the plain characters and the line break ending a // comment
\* are all there, unchanged and in order, and nothing else is.
C28_StripKeepsStrings ==
    config.json = Kept(config.text, KindsOf(config.text), 1)

\* a text with a string that holds an escaped quote and a comment opener,
\* all of it kept
C28_Witness ==
    /\ config.text = <<"dq", "bs", "dq", "sl", "sl">>
    /\ config.json = config.text

\* the ids of the tracks whose gainNode, in the map or not, feeds a channel
Feeding(e, ch) ==
    {id \in TrackIds : e.audioTracks[id].present /\ ch \in e.audioTracks[id].connected}
      \cup {id \in TrackIds : <<id, ch>> \in e.residual}

\* C29: after a setRouting, each channel gain is fed by the gainNode of the
\* loaded track the call named for it and by nothing else, no gainNode
\* that left the map still feeds a channel, and each channel gain has one
\* connection to the merger.
C29_NoResidualConnection ==
    [][(\E left, right \in AllEndpoints : applyRoutingFromSelectors(left, right))
         => \A ch \in Channels :
               LET e == audioEngine'
                   src == e.currentRouting[ch]
                   named == IF src.type = "audio" /\ e.audioTracks[src.id].present
                            THEN {src.id} ELSE {}
               IN /\ Feeding(e, ch) = named
                  /\ e.residual = {}
                  /\ e.merger[ch] = 1]_vars

\* C30: in every reachable state a pending deferred-play timer of a position
\* (the map holds at most one per position) belongs to the player currently
\* loaded there: the position has a player, the timer closes over a player
\* of that kind, and loadVideo has not replaced that player since the timer
\* was set.
C30_TimersBelongToLoadedPlayer ==
    \A pos \in Positions :
        LET tm == videoManager.pendingPlayTimeouts[pos]
        IN tm.deadline # None =>
              /\ hasPlayer(videoManager, pos)
              /\ tm.kind = VideoKind[videoManager.source[pos]]
              /\ ~tm.stale

\* C31: routing and play/pause are single-flight.  While a togglePlayPause
\* call is suspended at one of its awaits (the resume of the context, the
\* start of the videos), no step begins a second play, a pause or a
\* setRouting.
C31_SingleFlight ==
    [][Inflight > 0 =>
          /\ ~TogglePlay
          /\ ~TogglePause
          /\ ~(\E left \in Endpoints, right \in Endpoints :
                  applyRoutingFromSelectors(left, right))]_vars

\* C32: the per-frame tick runs only while playing.  Whenever a frame tick
\* of the cursor loop is scheduled, the application is playing or the
\* engine's clock reports isPlaying; after a pause or the end of the media
\* no tick is scheduled.
C32_TickOnlyWhilePlaying ==
    cursorRaf => (isPlaying \/ audioEngine.masterClock.isPlaying)

\* C33: the spectrogram's row-to-bin warp.  For a height h >= 2 every row y
\* drawn reads bin min(511, floor(((h-1-y) / (h-1))^2 * 511)); row 0 reads
\* bin 511, row h-1 reads bin 0, and the bin never increases from a row to
\* the next.
C33_RowToBinWarp ==
    canvas.kind = "spectrogram" =>
       LET h == canvas.height
           rows == canvas.rows
       IN /\ \A i \in 1..Len(rows) :
                LET y == i - 1
                    a == (h - 1) - y
                IN rows[i] = Min(511, (a * a * 511) \div ((h - 1) * (h - 1)))
          /\ Len(rows) >= 1 => rows[1] = 511
          /\ Len(rows) = h => rows[h] = 0
          /\ \A i \in 1..(Len(rows) - 1) : rows[i + 1] <= rows[i]

C33_Witness ==
    /\ canvas.kind = "spectrogram"
    /\ canvas.height = SpectrogramHeight
    /\ Len(canvas.rows) = canvas.height

\* C34: the waveform's columns cover every sample once.  When the columns
\* of a buffer of L >= w samples are all drawn, every slice is non-empty,
\* each slice starts where the one before it ended, the first starts at
\* sample 0 and the last ends at sample L: the slices are pairwise disjoint
\* and their union is 0..L-1.
C34_ColumnsCoverEverySample ==
    (canvas.kind = "waveform" /\ canvas.next = canvas.width) =>
       LET cols == canvas.cols
       IN /\ \A i \in 1..Len(cols) : cols[i].start < cols[i].end
          /\ \A i \in 1..(Len(cols) - 1) : cols[i + 1].start = cols[i].end
          /\ cols[1].start = 0
          /\ cols[Len(cols)].end = canvas.length

\* C35: in every reachable state in which the engine's clock reports
\* isPlaying, the master duration is available and positive.
C35_PlayingHasDuration ==
    audioEngine.masterClock.isPlaying =>
       LET duration == getMasterAudioDuration(audioEngine)
       IN duration # None /\ duration > 0

\* C36: pause is final until the next play.  From a state in which the
\* application is not playing, no play is in progress and the engine's clock
\* is stopped, a step that starts an audio track or sets the clock playing
\* is a play request.
C36_PauseIsFinal ==
    [][(/\ ~isPlaying
        /\ Inflight = 0
        /\ ~audioEngine.masterClock.isPlaying
        /\ (audioEngine'.started # {} \/ audioEngine'.masterClock.isPlaying))
       => TogglePlay]_vars

\* C37: overlapping video loads at one position.  Once every load made has
\* completed successfully, each position that was asked to load holds the
\* player and the source of its most recent request, and the players not
\* destroyed are exactly the ones the positions hold.
C37_LatestLoadWins ==
    (videoLoads.pending = {} /\ videoLoads.done = 0..(videoLoads.next - 1)) =>
       /\ \A pos \in Positions :
             videoLoads.latest[pos] # NoRequest =>
                /\ videoLoads.player[pos] = videoLoads.latest[pos].n
                /\ videoManager.source[pos] = videoLoads.latest[pos].src
       /\ videoLoads.live =
             {videoLoads.player[pos] : pos \in Positions} \ {None}

\* C40: the media-load gate.  The pending-load counter is never negative
\* and equals the number of tracked loads started and not yet settled, so
\* it is 0 once every tracked load has resolved or rejected; and while the
\* counter is above 0 and the application is not playing, no step starts an
\* audio track, sets the clock playing, requests the videos to play or
\* begins a play.
C40_MediaLoadGate ==
    /\ [](/\ pendingMediaLoads >= 0
          /\ pendingMediaLoads = Cardinality(videoLoads.pending))
    /\ [][(pendingMediaLoads > 0 /\ ~isPlaying) =>
             /\ audioEngine'.started = {}
             /\ audioEngine'.masterClock.isPlaying
                   = audioEngine.masterClock.isPlaying
             /\ videoManager'.playRequested = videoManager.playRequested
             /\ Inflight' <= Inflight]_vars

C40_Witness ==
    /\ pendingMediaLoads = 1
    /\ videoLoads.next = MaxVideoLoads
    /\ lastOp.name = "playIgnored"
    /\ ~isPlaying

\* C38: a load that has resolved leaves its track loaded until it is
\* unloaded.  A track that is in the map with its buffer stays so in every
\* step that neither unloads it nor starts a new load of its id; the
\* failure of another load of the id is such a step.
C38_LoadedStaysLoaded ==
    [][\A id \in TrackIds :
          (/\ audioEngine.audioTracks[id].present
           /\ audioEngine.audioTracks[id].buffer # 0
           /\ ~(audioEngine'.audioTracks[id].present
                  /\ audioEngine'.audioTracks[id].buffer # 0))
          => (UnloadAudioTrack(id) \/ LoadAudioTrack(id))]_vars

\* C39: the application's play state agrees with the audio clock.  Whenever
\* no togglePlayPause call is suspended at an await and no restart timer of
\* a seek is pending, the application's isPlaying equals the engine
\* clock's isPlaying.
C39_AppAgreesWithClock ==
    (Inflight = 0 /\ restartTimers = <<>>) =>
       isPlaying = audioEngine.masterClock.isPlaying

====
